---------------------------- MODULE Spec2Model ----------------------------
(***************************************************************************)
(* Verification model of the TREX clone-tracing pipeline                    *)
(* (src/src/trex/cli/run10x.py and its predecessors).                       *)
(*                                                                          *)
(* Barcode / clone_id strings are sequences of one-character strings over   *)
(* {A,C,G,T,0,-}.  The module holds several specifications, one per         *)
(* pipeline stage:                                                          *)
(*   SpecSim     - the similarity predicate is_similar                      *)
(*   SpecFilter  - compute_cells, filter_cells, filter_visium               *)
(*   SpecCorrect - cluster_sequences and correct_clone_ids                  *)
(*   SpecGraph   - the clone graph: bridges (DFS), remove_edges, clones     *)
(* Every specification leaves the variables of the other stages at their    *)
(* idle value.                                                              *)
(***************************************************************************)
EXTENDS Integers, Sequences, FiniteSets, TLC

(***************************************************************************)
(* Bounds of the model                                                      *)
(***************************************************************************)
\* length of the strings handed to is_similar in SpecSim
MaxLen == 3

\* largest max_hamming tried in SpecSim
MaxHamming == 1

\* largest number of molecules in SpecFilter
MaxMolecules == 4

(***************************************************************************)
(* Strings                                                                  *)
(***************************************************************************)
Range(f) == { f[i] : i \in DOMAIN f }

Min(a, b) == IF a < b THEN a ELSE b

Max(a, b) == IF a < b THEN b ELSE a

\* all strings of length exactly n over the symbol set A
StringsOf(A, n) == [1..n -> A]

\* Python str.lstrip("-"): drop the leading run of '-'
lstrip(s) ==
    LET lead == { i \in 1..Len(s) : \A j \in 1..i : s[j] = "-" }
        n    == Cardinality(lead)
    IN  SubSeq(s, n + 1, Len(s))

\* Python str.rstrip("-"): drop the trailing run of '-'
rstrip(s) ==
    LET trail == { i \in 1..Len(s) : \A j \in i..Len(s) : s[j] = "-" }
        n     == Cardinality(trail)
    IN  SubSeq(s, 1, Len(s) - n)

\* Python slice t[-n:] for n >= 0 (t[-0:] is the whole string)
SliceLast(t, n) ==
    IF n = 0 \/ n >= Len(t) THEN t ELSE SubSeq(t, Len(t) - n + 1, Len(t))

\* Python slice t[:n] for n >= 0
SliceFirst(t, n) == SubSeq(t, 1, Min(n, Len(t)))

(***************************************************************************)
(* SimilarityPrimitive: tinyalign.hamming_distance.  It raises on strings   *)
(* of different length; the model returns -1 for the raise.                 *)
(***************************************************************************)
hamming_distance(s, t) ==
    IF Len(s) # Len(t) THEN -1
    ELSE Cardinality({ i \in 1..Len(s) : s[i] # t[i] })

\* the last line of is_similar: "True", "False" or "IndexError"
hamming_within(s, t, max_hamming) ==
    LET d == hamming_distance(s, t)
    IN  IF d = -1 THEN "IndexError"
        ELSE IF d <= max_hamming THEN "True" ELSE "False"

\* is_similar without the alignment step t = t[-len(s):]
is_similar_unaligned(s, t, max_hamming, min_overlap) ==
    IF "-" \in Range(s) \/ "-" \in Range(t)
    THEN LET s2 == rstrip(lstrip(s))
         IN  IF Len(s2) < min_overlap THEN "False"
             ELSE hamming_within(s2, SliceFirst(t, Len(s2)), max_hamming)
    ELSE hamming_within(s, t, max_hamming)

\* is_similar without the truncation t = t[:len(s)]
is_similar_untruncated(s, t, max_hamming, min_overlap) ==
    IF "-" \in Range(s) \/ "-" \in Range(t)
    THEN LET s1 == lstrip(s)
             t1 == SliceLast(t, Len(s1))
             s2 == rstrip(s1)
         IN  IF Len(s2) < min_overlap THEN "False"
             ELSE hamming_within(s2, t1, max_hamming)
    ELSE hamming_within(s, t, max_hamming)

\* correct_clone_ids.is_similar(s, t), a closure over max_hamming, min_overlap
is_similar(s, t, max_hamming, min_overlap) ==
    IF "-" \in Range(s) \/ "-" \in Range(t)
    THEN LET s1 == lstrip(s)
             t1 == SliceLast(t, Len(s1))
             s2 == rstrip(s1)
         IN  IF Len(s2) < min_overlap THEN "False"
             ELSE hamming_within(s2, SliceFirst(t1, Len(s2)), max_hamming)
    ELSE hamming_within(s, t, max_hamming)


(***************************************************************************)
(* Molecules and cells.  A molecule is [cell_id, umi, clone_id, read_count], *)
(* a cell is [cell_id, counts] with counts a function clone_id -> count     *)
(* whose domain is the set of keys of the Python dict.                      *)
(***************************************************************************)
\* Python str.strip(ch): drop the leading and the trailing run of ch
strip(s, ch) ==
    LET lead  == Cardinality({ i \in 1..Len(s) : \A j \in 1..i : s[j] = ch })
        trail == Cardinality({ i \in 1..Len(s) : \A j \in i..Len(s) : s[j] = ch })
    IN  IF lead = Len(s) THEN << >> ELSE SubSeq(s, lead + 1, Len(s) - trail)

\* the min_length test with the '0' strip left out
long_enough_dash_only(clone_id, min_length) ==
    Len(strip(clone_id, "-")) >= min_length

\* the min_length test of CellAggregator on one clone_id
long_enough(clone_id, min_length) ==
    /\ Len(strip(clone_id, "-")) >= min_length
    /\ Len(strip(clone_id, "0")) >= min_length

\* the distinct values of a sequence in order of first appearance
RECURSIVE FirstSeen(_)
FirstSeen(q) ==
    IF q = << >> THEN << >>
    ELSE LET front == FirstSeen(SubSeq(q, 1, Len(q) - 1))
             x     == q[Len(q)]
         IN  IF x \in Range(front) THEN front ELSE Append(front, x)

\* compute_cells(molecules, min_length): one cell per cell_id that keeps a molecule
compute_cells(molecules, min_length) ==
    LET kept    == SelectSeq(molecules, LAMBDA m : long_enough(m.clone_id, min_length))
        ids     == FirstSeen([ i \in 1..Len(kept) |-> kept[i].cell_id ])
        keys(c) == { kept[i].clone_id : i \in { j \in 1..Len(kept) : kept[j].cell_id = c } }
        tally(c) == [ k \in keys(c) |->
                        Cardinality({ i \in 1..Len(kept) :
                                        kept[i].cell_id = c /\ kept[i].clone_id = k }) ]
    IN  [ i \in 1..Len(ids) |-> [cell_id |-> ids[i], counts |-> tally(ids[i])] ]

\* Counter lookup overall_counts[clone_id] after updating with every cell's counts
RECURSIVE overall_counts(_, _)
overall_counts(cells, clone_id) ==
    IF cells = << >> THEN 0
    ELSE LET c == cells[1].counts
         IN  (IF clone_id \in DOMAIN c THEN c[clone_id] ELSE 0)
               + overall_counts(Tail(cells), clone_id)

\* the clone_ids of the molecules with read_count == 1
single_read_clone_ids(molecules) ==
    { molecules[i].clone_id : i \in { j \in 1..Len(molecules) : molecules[j].read_count = 1 } }

\* the decision of filter_cells with the guard count > 1 off by one
entry_deleted_guard2(count, overall, single_read, keep_single_reads) ==
    IF count > 2 THEN FALSE
    ELSE IF overall > 1 THEN TRUE
    ELSE single_read /\ ~keep_single_reads

\* the decision of filter_cells with keep_single_reads switching off both rules
entry_deleted_keep_all(count, overall, single_read, keep_single_reads) ==
    IF count > 1 THEN FALSE
    ELSE IF overall > 1 /\ ~keep_single_reads THEN TRUE
    ELSE single_read /\ ~keep_single_reads

\* the decision of filter_cells without the rule on clone_ids of other cells
entry_deleted_single_only(count, overall, single_read, keep_single_reads) ==
    IF count > 1 THEN FALSE
    ELSE single_read /\ ~keep_single_reads

\* the body of the inner loop of filter_cells: is counts[clone_id] deleted
entry_deleted(count, overall, single_read, keep_single_reads) ==
    IF count > 1 THEN FALSE
    ELSE IF overall > 1 THEN TRUE
    ELSE single_read /\ ~keep_single_reads

\* a function restricted to the keys in S
Restrict(f, S) == [ k \in S |-> f[k] ]

\* the new cells with the cells without counts among them
keep_every_cell(cells) == cells

\* the new cells in the order of the old ones, cells without counts left out
keep_nonempty(cells) == SelectSeq(cells, LAMBDA c : DOMAIN c.counts # {})

Reverse(q) == [ i \in 1..Len(q) |-> q[Len(q) + 1 - i] ]

\* filter_cells with new_cells built by prepending instead of appending
filter_cells_prepend(cells, molecules, keep_single_reads) ==
    LET single == single_read_clone_ids(molecules)
        deleted(cell, k) ==
            entry_deleted(cell.counts[k], overall_counts(cells, k),
                          k \in single, keep_single_reads)
        new(cell) ==
            [cell_id |-> cell.cell_id,
             counts  |-> Restrict(cell.counts,
                                  { k \in DOMAIN cell.counts : ~deleted(cell, k) })]
    IN  Reverse(keep_nonempty([ i \in 1..Len(cells) |-> new(cells[i]) ]))

\* filter_cells with the totals taken over the tables as filtered so far:
\* the cells before the current one after their deletions, the rest as given
filter_cells_running(cells, molecules, keep_single_reads) ==
    LET single == single_read_clone_ids(molecules)
        f[n \in 0..Len(cells)] ==
            IF n = 0 THEN << >>
            ELSE LET cur  == f[n - 1] \o SubSeq(cells, n, Len(cells))
                     cell == cells[n]
                     kept == { k \in DOMAIN cell.counts :
                                 ~entry_deleted(cell.counts[k], overall_counts(cur, k),
                                                k \in single, keep_single_reads) }
                 IN  Append(f[n - 1],
                            [cell_id |-> cell.cell_id, counts |-> Restrict(cell.counts, kept)])
    IN  keep_nonempty(f[Len(cells)])

\* filter_cells(cells, molecules, keep_single_reads)
filter_cells(cells, molecules, keep_single_reads) ==
    LET single == single_read_clone_ids(molecules)
        deleted(cell, k) ==
            entry_deleted(cell.counts[k], overall_counts(cells, k),
                          k \in single, keep_single_reads)
        new(cell) ==
            [cell_id |-> cell.cell_id,
             counts  |-> Restrict(cell.counts,
                                  { k \in DOMAIN cell.counts : ~deleted(cell, k) })]
    IN  keep_nonempty([ i \in 1..Len(cells) |-> new(cells[i]) ])

\* visium_deletions with the test molecule.cell_id == cell_id left out
visium_deletions_any_cell(molecules, cell_id, clone_id) ==
    Cardinality({ molecules[i].clone_id : i \in { j \in 1..Len(molecules) :
                    /\ molecules[j].clone_id = clone_id
                    /\ molecules[j].read_count = 1 } })

\* the number of molecules for which filter_visium runs "del counts[clone_id]"
\* while it looks at the entry clone_id of the cell cell_id
visium_deletions(molecules, cell_id, clone_id) ==
    Cardinality({ i \in 1..Len(molecules) :
                    /\ molecules[i].cell_id = cell_id
                    /\ molecules[i].clone_id = clone_id
                    /\ molecules[i].read_count = 1 })

\* filter_visium(cells, molecules): [error, cells]; a second "del" of the same
\* key raises KeyError
filter_visium(cells, molecules) ==
    LET dels(cell, k) ==
            IF cell.counts[k] > 1 THEN 0
            ELSE visium_deletions(molecules, cell.cell_id, k)
        new(cell) ==
            [cell_id |-> cell.cell_id,
             counts  |-> Restrict(cell.counts,
                                  { k \in DOMAIN cell.counts : dels(cell, k) = 0 })]
        raises == \E i \in 1..Len(cells) : \E k \in DOMAIN cells[i].counts :
                      dels(cells[i], k) > 1
    IN  IF raises THEN [error |-> "KeyError", cells |-> << >>]
        ELSE [error |-> "none",
              cells |-> keep_nonempty([ i \in 1..Len(cells) |-> new(cells[i]) ])]

(***************************************************************************)
(* ClusterEngine and clone_id correction                                    *)
(***************************************************************************)
\* the anchor length correct_clone_ids hands to cluster_sequences
K == 7

\* the connected component of the node set S in the graph with edge set E
\* (an edge is a set of two nodes)
RECURSIVE ComponentOf(_, _)
ComponentOf(S, E) ==
    LET grown == S \cup UNION { e \in E : e \cap S # {} }
    IN  IF grown = S THEN S ELSE ComponentOf(grown, E)

\* the connected components of the graph (N, E)
Components(N, E) == { ComponentOf({ x }, E) : x \in N }

\* the substrings of length k of s
kmers(s, k) == { SubSeq(s, i, i + k - 1) : i \in 1..(Len(s) - k + 1) }

\* s and t fall into one anchor bucket: they share a substring of length k
share_anchor(s, t, k) == kmers(s, k) \cap kmers(t, k) # {}

\* cluster_sequences(sequences, is_similar, k): the candidates of a bucket are
\* compared once, in list order; the clusters are the components of the
\* graph of similar pairs
cluster_sequences(sequences, max_hamming, min_overlap, k) ==
    LET n == Len(sequences)
        E == { { sequences[i], sequences[j] } :
                 << i, j >> \in { p \in (1..n) \X (1..n) :
                    /\ p[1] < p[2]
                    /\ share_anchor(sequences[p[1]], sequences[p[2]], k)
                    /\ is_similar(sequences[p[1]], sequences[p[2]],
                                  max_hamming, min_overlap) = "True" } }
    IN  Components(Range(sequences), E)

\* the code point of a symbol, the order of Python's string comparison
Ord(ch) ==
    CASE ch = "-" -> 45
      [] ch = "0" -> 48
      [] ch = "A" -> 65
      [] ch = "C" -> 67
      [] ch = "G" -> 71
      [] ch = "T" -> 84

\* Python a < b on strings
StrLess(a, b) ==
    \E i \in 1..(Min(Len(a), Len(b)) + 1) :
        /\ \A j \in 1..(i - 1) : a[j] = b[j]
        /\ \/ i = Len(a) + 1 /\ i <= Len(b)
           \/ i <= Len(a) /\ i <= Len(b) /\ Ord(a[i]) < Ord(b[i])

\* counts = Counter(clone_ids): counts[bc]
counts_of(molecules, bc) ==
    Cardinality({ i \in DOMAIN molecules : molecules[i].clone_id = bc })

\* the representative with the tie between equal counts going to the least string
representative_least(cluster, molecules) ==
    CHOOSE r \in cluster : \A o \in cluster :
        \/ counts_of(molecules, o) < counts_of(molecules, r)
        \/ counts_of(molecules, o) = counts_of(molecules, r) /\ (o = r \/ StrLess(r, o))

\* max(cluster, key=lambda bc: (counts[bc], bc))
representative(cluster, molecules) ==
    CHOOSE r \in cluster : \A o \in cluster :
        \/ counts_of(molecules, o) < counts_of(molecules, r)
        \/ counts_of(molecules, o) = counts_of(molecules, r) /\ (o = r \/ StrLess(o, r))

\* clone_id_map: the members of the clusters with more than one member,
\* mapped to the representative of their cluster
clone_id_map_of(clusters, molecules) ==
    LET big == { c \in clusters : Cardinality(c) > 1 }
    IN  [ bc \in UNION big |->
            representative(CHOOSE c \in big : bc \in c, molecules) ]

\* new_molecules built by putting every new molecule in front of the list
replace_clone_ids_prepend(molecules, clone_id_map) ==
    [ i \in DOMAIN molecules |->
        [ molecules[Len(molecules) + 1 - i] EXCEPT !.clone_id =
            IF @ \in DOMAIN clone_id_map THEN clone_id_map[@] ELSE @ ] ]

\* new_molecules: molecule._replace(clone_id=clone_id_map.get(clone_id, clone_id))
replace_clone_ids(molecules, clone_id_map) ==
    [ i \in DOMAIN molecules |->
        [ molecules[i] EXCEPT !.clone_id =
            IF @ \in DOMAIN clone_id_map THEN clone_id_map[@] ELSE @ ] ]

\* correct_clone_ids(molecules, max_hamming, min_overlap) when list(set(clone_ids))
\* comes out in the order sequences
correct_clone_ids(molecules, max_hamming, min_overlap, sequences) ==
    replace_clone_ids(molecules,
        clone_id_map_of(cluster_sequences(sequences, max_hamming, min_overlap, K),
                        molecules))

(***************************************************************************)
(* CloneGraph: the graph of cells, its bridges and their removal.  An edge  *)
(* is a set of two nodes.                                                   *)
(***************************************************************************)
\* the neighbours of node u
neighbors(edges, u) == { v \in UNION edges : { u, v } \in edges /\ v # u }

\* the bridge test of the traversal with >= for >
is_bridge_or_equal(low_child, disc_parent) == low_child >= disc_parent

\* the bridge test of the traversal on the return from a child to its parent:
\* the child's low-link number lies after the parent's discovery number
is_bridge(low_child, disc_parent) == low_child > disc_parent

(***************************************************************************)
(* State.  One record per pipeline stage; a stage that a specification      *)
(* does not run stays Idle.                                                 *)
(***************************************************************************)
VARIABLES sim, flt, cor, gr, rd, mol, run

vars == << sim, flt, cor, gr, rd, mol, run >>

Idle == [pc |-> "idle"]

(***************************************************************************)
(* SpecSim: is_similar applied to a pair of strings of the locus length     *)
(***************************************************************************)
\* symbols of the strings of SpecSim: a base, the deletion and the gap sentinel
SimAlphabet == { "A", "0", "-" }

InitSim ==
    /\ sim \in [ pc          : { "start" },
                 s           : StringsOf(SimAlphabet, MaxLen),
                 t           : StringsOf(SimAlphabet, MaxLen),
                 max_hamming : 0..MaxHamming,
                 min_overlap : 0..(MaxLen + 1),
                 st          : { "none" },
                 ts          : { "none" },
                 ss          : { "none" } ]
    /\ flt = Idle
    /\ cor = Idle
    /\ gr = Idle
    /\ rd = Idle
    /\ mol = Idle
    /\ run = Idle

\* the calls is_similar(s, t), is_similar(t, s) and is_similar(s, s)
CallIsSimilar ==
    /\ sim.pc = "start"
    /\ sim' = [ sim EXCEPT
                  !.pc = "done",
                  !.st = is_similar(sim.s, sim.t, sim.max_hamming, sim.min_overlap),
                  !.ts = is_similar(sim.t, sim.s, sim.max_hamming, sim.min_overlap),
                  !.ss = is_similar(sim.s, sim.s, sim.max_hamming, sim.min_overlap) ]
    /\ UNCHANGED << flt, cor, gr, rd, mol, run >>

NextSim == CallIsSimilar

SpecSim == InitSim /\ [][NextSim]_vars

\* the length of s after trimming its leading and trailing '-'
TrimmedLen(s) == Len(strip(s, "-"))

\* C1: is_similar is symmetric: for every pair of equal-length strings and
\* every max_hamming and min_overlap, is_similar(s, t) = is_similar(t, s),
\* also when only one of the two strings carries leading or trailing '-'.
C1_Symmetric == sim.pc = "done" => sim.st = sim.ts

\* C2 as claimed: is_similar(s, s) is true for every string s, including the
\* strings whose length after trimming '-' is below min_overlap.
C2_ReflexiveAlways == sim.pc = "done" => sim.ss = "True"

\* C2 as amended: is_similar(s, s) is true exactly when s holds no '-' or the
\* length of s after trimming its leading and trailing '-' is at least
\* min_overlap; for the other strings it is false.
C2_ReflexiveIfOverlap ==
    sim.pc = "done" =>
        ( sim.ss = "True" <=>
            ( "-" \notin Range(sim.s) \/ TrimmedLen(sim.s) >= sim.min_overlap ) )

\* a string with a leading and a trailing '-' compared with itself, its middle
\* long enough for min_overlap
C2_Witness ==
    /\ sim.pc = "done"
    /\ sim.s[1] = "-" /\ sim.s[Len(sim.s)] = "-"
    /\ sim.min_overlap >= 1
    /\ TrimmedLen(sim.s) >= sim.min_overlap
    /\ sim.ss = "True"

(***************************************************************************)
(* SpecFilter: run_trex from compute_cells to the filtered cells, and a     *)
(* second run of the same filter on the filtered cells                      *)
(***************************************************************************)
\* the cell ids of the molecules of SpecFilter are 1..Len(FilterCellIds)
FilterCellIds == << 1, 2, 3 >>

\* the clone_ids of the molecules of SpecFilter
FilterCloneIds == << << "A", "T" >>, << "A", "-" >> >>

\* the read_counts of the molecules of SpecFilter
ReadCounts == << 1, 2 >>

\* the kinds of molecule << cell_id, clone_id, read_count >>, numbered cell by cell
MoleculeKinds ==
    LET ncl == Len(FilterCloneIds)
        nr  == Len(ReadCounts)
    IN  [ k \in 1..(Len(FilterCellIds) * ncl * nr) |->
            << FilterCellIds[((k - 1) \div (ncl * nr)) + 1],
               FilterCloneIds[(((k - 1) \div nr) % ncl) + 1],
               ReadCounts[((k - 1) % nr) + 1] >> ]

\* the molecule lists of up to MaxMolecules molecules (one UMI per molecule)
MoleculeLists ==
    LET nk == Len(MoleculeKinds)
        sorted(ks) == \A i \in DOMAIN ks : i = 1 \/ ks[i - 1] <= ks[i]
        build(ks) == [ i \in DOMAIN ks |->
                         [cell_id    |-> MoleculeKinds[ks[i]][1],
                          umi        |-> i,
                          clone_id   |-> MoleculeKinds[ks[i]][2],
                          read_count |-> MoleculeKinds[ks[i]][3]] ]
    IN  UNION { { build(ks) : ks \in { q \in [ 1..n -> 1..nk ] : sorted(q) } } :
                n \in 0..MaxMolecules }

InitFilter ==
    /\ \E ms \in MoleculeLists :
       \E ml \in { 1, 2 } :
       \E mode \in { << FALSE, FALSE >>, << FALSE, TRUE >>, << TRUE, FALSE >> } :
          flt = [ pc                |-> "molecules",
                  molecules         |-> ms,
                  min_length        |-> ml,
                  should_run_visium |-> mode[1],
                  keep_single_reads |-> mode[2],
                  cells             |-> << >>,
                  filtered          |-> << >>,
                  refiltered        |-> << >>,
                  error             |-> "none" ]
    /\ sim = Idle
    /\ cor = Idle
    /\ gr = Idle
    /\ rd = Idle
    /\ mol = Idle
    /\ run = Idle

\* cells = compute_cells(corrected_molecules, min_length)
ComputeCells ==
    /\ flt.pc = "molecules"
    /\ flt' = [ flt EXCEPT !.pc = "cells",
                           !.cells = compute_cells(flt.molecules, flt.min_length) ]
    /\ UNCHANGED << sim, cor, gr, rd, mol, run >>

\* cells = filter_cells(cells, corrected_molecules, keep_single_reads)
FilterCells ==
    /\ flt.pc = "cells"
    /\ ~flt.should_run_visium
    /\ flt' = [ flt EXCEPT !.pc = "filtered",
                           !.filtered = filter_cells(flt.cells, flt.molecules,
                                                     flt.keep_single_reads) ]
    /\ UNCHANGED << sim, cor, gr, rd, mol, run >>

\* cells = filter_visium(cells, corrected_molecules)
FilterVisium ==
    /\ flt.pc = "cells"
    /\ flt.should_run_visium
    /\ LET r == filter_visium(flt.cells, flt.molecules)
       IN  flt' = [ flt EXCEPT !.pc = IF r.error = "none" THEN "filtered" ELSE "failed",
                               !.filtered = r.cells,
                               !.error = r.error ]
    /\ UNCHANGED << sim, cor, gr, rd, mol, run >>

\* the same filter run once more, on the filtered cells
FilterAgain ==
    /\ flt.pc = "filtered"
    /\ LET r == IF flt.should_run_visium
                THEN filter_visium(flt.filtered, flt.molecules)
                ELSE [error |-> "none",
                      cells |-> filter_cells(flt.filtered, flt.molecules,
                                             flt.keep_single_reads)]
       IN  flt' = [ flt EXCEPT !.pc = IF r.error = "none" THEN "refiltered" ELSE "failed",
                               !.refiltered = r.cells,
                               !.error = r.error ]
    /\ UNCHANGED << sim, cor, gr, rd, mol, run >>

NextFilter == ComputeCells \/ FilterCells \/ FilterVisium \/ FilterAgain

SpecFilter == InitFilter /\ [][NextFilter]_vars

\* the cell with the id of cells[i] has the entry k among the cells of out
Survives(out, cell_id, k) ==
    \E j \in DOMAIN out : out[j].cell_id = cell_id /\ k \in DOMAIN out[j].counts

\* the sum of the counts of clone_id k over the list cells
TotalCount(cells, k) ==
    LET f[n \in 0..Len(cells)] ==
            IF n = 0 THEN 0
            ELSE f[n - 1] + (IF k \in DOMAIN cells[n].counts THEN cells[n].counts[k] ELSE 0)
    IN  f[Len(cells)]

\* some molecule of the list with clone_id k has read_count 1
SingleReadAnywhere(molecules, k) ==
    \E i \in DOMAIN molecules : molecules[i].clone_id = k /\ molecules[i].read_count = 1

\* some molecule of the cell cell_id with clone_id k has read_count 1
SingleReadInCell(molecules, cell_id, k) ==
    \E i \in DOMAIN molecules :
        /\ molecules[i].cell_id = cell_id
        /\ molecules[i].clone_id = k
        /\ molecules[i].read_count = 1

\* C3: neither filter_cells nor filter_visium removes a (cell, clone_id) entry
\* whose count in that cell is greater than 1, whatever the other cells, the
\* read_counts and keep_single_reads are; the entry keeps its count.
C3_KeepsCountAboveOne ==
    /\ flt.pc \in { "filtered", "refiltered" } =>
         \A i \in DOMAIN flt.cells : \A k \in DOMAIN flt.cells[i].counts :
            flt.cells[i].counts[k] > 1 =>
               \E j \in DOMAIN flt.filtered :
                  /\ flt.filtered[j].cell_id = flt.cells[i].cell_id
                  /\ k \in DOMAIN flt.filtered[j].counts
                  /\ flt.filtered[j].counts[k] = flt.cells[i].counts[k]
    /\ flt.pc = "refiltered" =>
         \A i \in DOMAIN flt.filtered : \A k \in DOMAIN flt.filtered[i].counts :
            flt.filtered[i].counts[k] > 1 =>
               Survives(flt.refiltered, flt.filtered[i].cell_id, k)

\* filtering has run on a cell that holds a clone_id twice while another cell
\* holds it too and one of its molecules is a single read
C3_Witness ==
    /\ flt.pc = "filtered"
    /\ \E i \in DOMAIN flt.cells : \E k \in DOMAIN flt.cells[i].counts :
          /\ flt.cells[i].counts[k] > 1
          /\ TotalCount(flt.cells, k) > flt.cells[i].counts[k]
          /\ SingleReadInCell(flt.molecules, flt.cells[i].cell_id, k)
          /\ ~flt.keep_single_reads
          /\ Len(flt.filtered) < Len(flt.cells)

\* C4: filter_cells is idempotent: filter_cells(filter_cells(cells, molecules, k),
\* molecules, k) = filter_cells(cells, molecules, k), the totals of the second
\* run being those of the filtered cells.
C4_Idempotent ==
    (flt.pc = "refiltered" /\ ~flt.should_run_visium) => flt.refiltered = flt.filtered

\* the second run has seen smaller totals than the first and at least two cells
C4_Witness ==
    /\ flt.pc = "refiltered"
    /\ ~flt.should_run_visium
    /\ Len(flt.filtered) >= 2
    /\ \E k \in Range(FilterCloneIds) :
          /\ TotalCount(flt.filtered, k) < TotalCount(flt.cells, k)
          /\ TotalCount(flt.filtered, k) > 0

\* C5: in default mode filter_cells removes an entry if and only if its count
\* is 1 and either (a) the clone_id's counts over all input cells sum to more
\* than 1, or (b) keep_single_reads is false and some molecule of the dataset
\* with that clone_id has read_count 1; keep_single_reads disables only (b).
C5_DefaultRule ==
    (flt.pc = "filtered" /\ ~flt.should_run_visium) =>
        \A i \in DOMAIN flt.cells : \A k \in DOMAIN flt.cells[i].counts :
            ~Survives(flt.filtered, flt.cells[i].cell_id, k)
            <=> ( /\ flt.cells[i].counts[k] = 1
                  /\ \/ TotalCount(flt.cells, k) > 1
                     \/ ~flt.keep_single_reads /\ SingleReadAnywhere(flt.molecules, k) )

\* with keep_single_reads set, one count-1 entry went by rule (a) and another
\* one, built from a single read, stayed
C5_Witness ==
    /\ flt.pc = "filtered"
    /\ ~flt.should_run_visium
    /\ flt.keep_single_reads
    /\ \E i \in DOMAIN flt.cells : \E k \in DOMAIN flt.cells[i].counts :
          /\ flt.cells[i].counts[k] = 1
          /\ TotalCount(flt.cells, k) > 1
          /\ ~Survives(flt.filtered, flt.cells[i].cell_id, k)
    /\ \E i \in DOMAIN flt.cells : \E k \in DOMAIN flt.cells[i].counts :
          /\ flt.cells[i].counts[k] = 1
          /\ SingleReadAnywhere(flt.molecules, k)
          /\ Survives(flt.filtered, flt.cells[i].cell_id, k)

\* C6 as claimed: in sparse mode a count-1 entry is removed if and only if some
\* molecule anywhere in the dataset with that clone_id has read_count 1.
C6_SingleReadAnywhere ==
    (flt.pc = "filtered" /\ flt.should_run_visium) =>
        \A i \in DOMAIN flt.cells : \A k \in DOMAIN flt.cells[i].counts :
            flt.cells[i].counts[k] = 1 =>
                ( ~Survives(flt.filtered, flt.cells[i].cell_id, k)
                  <=> SingleReadAnywhere(flt.molecules, k) )

\* C6 as amended: in sparse mode an entry is removed if and only if its count
\* is 1 and the molecule of that same cell with that clone_id has read_count 1;
\* the clone_id's occurrences and read_counts in other cells never matter.
C6_SingleReadInCell ==
    (flt.pc = "filtered" /\ flt.should_run_visium) =>
        \A i \in DOMAIN flt.cells : \A k \in DOMAIN flt.cells[i].counts :
            ~Survives(flt.filtered, flt.cells[i].cell_id, k)
            <=> ( /\ flt.cells[i].counts[k] = 1
                  /\ SingleReadInCell(flt.molecules, flt.cells[i].cell_id, k) )

\* sparse mode kept a count-1 entry whose clone_id another cell holds too, and
\* removed the single-read entry of that other cell
C6_Witness ==
    /\ flt.pc = "filtered"
    /\ flt.should_run_visium
    /\ \E i, j \in DOMAIN flt.cells : \E k \in DOMAIN flt.cells[i].counts :
          /\ i # j
          /\ k \in DOMAIN flt.cells[j].counts
          /\ flt.cells[i].counts[k] = 1
          /\ flt.cells[j].counts[k] = 1
          /\ Survives(flt.filtered, flt.cells[i].cell_id, k)
          /\ ~Survives(flt.filtered, flt.cells[j].cell_id, k)

(***************************************************************************)
(* SpecCorrect: correct_clone_ids on a molecule list                        *)
(***************************************************************************)
\* largest number of molecules in SpecCorrect (Example B apart)
MaxCorrected == 3

\* the clone_ids of the molecules of SpecCorrect: strings longer than K, so
\* that different strings can share an anchor
CorrectCloneIds ==
    { << "A", "A", "A", "A", "A", "A", "A", "A" >>,
      << "A", "A", "A", "A", "A", "A", "A", "T" >>,
      << "A", "A", "A", "A", "A", "A", "A", "-" >>,
      << "C", "A", "A", "A", "A", "A", "A", "A" >> }

\* a molecule list for a list of clone_ids: cells 1 and 2 in turn, one UMI each
MoleculesWith(ids) ==
    [ i \in DOMAIN ids |->
        [cell_id |-> ((i - 1) % 2) + 1, umi |-> i, clone_id |-> ids[i],
         read_count |-> (i % 2) + 1] ]

\* Example B of the specification: "AAAAA" in 10 molecules, "AAAAT" in 1
ExampleB ==
    MoleculesWith([ i \in 1..11 |->
        IF i = 6 THEN << "A", "A", "A", "A", "T" >> ELSE << "A", "A", "A", "A", "A" >> ])

\* the orders in which list(set(clone_ids)) can come out
Orders(molecules) ==
    LET S == { molecules[i].clone_id : i \in DOMAIN molecules }
    IN  { q \in [ 1..Cardinality(S) -> S ] : Range(q) = S }

InitCorrect ==
    /\ \E ms \in { MoleculesWith(ids) :
                     ids \in UNION { [ 1..n -> CorrectCloneIds ] : n \in 1..MaxCorrected } }
                 \cup { ExampleB } :
       \E mh \in { 0, 1 } :
       \E mo \in { 5, 8 } :
       \E order \in Orders(ms) :
          /\ (ms = ExampleB) => (mh = 1 /\ mo = 5)
          /\ cor = [ pc           |-> "molecules",
                     molecules    |-> ms,
                     max_hamming  |-> mh,
                     min_overlap  |-> mo,
                     sequences    |-> order,
                     clusters     |-> {},
                     clone_id_map |-> << >>,
                     corrected    |-> << >> ]
    /\ sim = Idle
    /\ flt = Idle
    /\ gr = Idle
    /\ rd = Idle
    /\ mol = Idle
    /\ run = Idle

\* clusters = cluster_sequences(list(set(clone_ids)), is_similar=is_similar, k=7)
ClusterSequences ==
    /\ cor.pc = "molecules"
    /\ cor' = [ cor EXCEPT !.pc = "clustered",
                           !.clusters = cluster_sequences(cor.sequences, cor.max_hamming,
                                                          cor.min_overlap, K) ]
    /\ UNCHANGED << sim, flt, gr, rd, mol, run >>

\* the loop that fills clone_id_map
MapRepresentatives ==
    /\ cor.pc = "clustered"
    /\ cor' = [ cor EXCEPT !.pc = "mapped",
                           !.clone_id_map = clone_id_map_of(cor.clusters, cor.molecules) ]
    /\ UNCHANGED << sim, flt, gr, rd, mol, run >>

\* the loop that builds new_molecules
ReplaceCloneIds ==
    /\ cor.pc = "mapped"
    /\ cor' = [ cor EXCEPT !.pc = "corrected",
                           !.corrected = replace_clone_ids(cor.molecules, cor.clone_id_map) ]
    /\ UNCHANGED << sim, flt, gr, rd, mol, run >>

NextCorrect == ClusterSequences \/ MapRepresentatives \/ ReplaceCloneIds

SpecCorrect == InitCorrect /\ [][NextCorrect]_vars

\* the number of molecules of the input list that carry the clone_id bc
Occurrences(bc) ==
    Cardinality({ i \in DOMAIN cor.molecules : cor.molecules[i].clone_id = bc })

\* C7: in every cluster with more than one member the representative is a
\* member of the cluster, no member occurs in more molecules than it, and among
\* the members with the maximal count it is the lexicographically greatest.
C7_Representative ==
    cor.pc \in { "mapped", "corrected" } =>
        \A c \in cor.clusters :
            Cardinality(c) > 1 =>
                \E r \in c :
                    /\ \A m \in c : cor.clone_id_map[m] = r
                    /\ \A m \in c : Occurrences(m) <= Occurrences(r)
                    /\ \A m \in c : Occurrences(m) = Occurrences(r) => (m = r \/ StrLess(m, r))

\* a cluster in which two different strings are tied at the maximal count and
\* one of them has become the representative of the other
C7_Witness ==
    /\ cor.pc = "mapped"
    /\ \E c \in cor.clusters : \E a, b \in c :
          /\ a # b
          /\ Occurrences(a) = Occurrences(b)
          /\ cor.clone_id_map[a] = b
          /\ \A m \in c : Occurrences(m) <= Occurrences(b)

\* C8: Example B: with "AAAAA" in 10 molecules and "AAAAT" in 1, max_hamming 1
\* and min_overlap 5, both strings end in one cluster and every molecule comes
\* out with clone_id "AAAAA".
C8_ExampleB ==
    (cor.pc = "corrected" /\ cor.molecules = ExampleB) =>
        /\ Cardinality(cor.clusters) = 1
        /\ \A i \in DOMAIN cor.corrected :
              cor.corrected[i].clone_id = << "A", "A", "A", "A", "A" >>

\* the permutations of 1..n
IndexOrders(n) == { q \in [ 1..n -> 1..n ] : Range(q) = 1..n }

MaxNodes == 4

\* the simple undirected graphs on the nodes 1..n
EdgesOn(n) == SUBSET { { u, v } : << u, v >> \in { p \in (1..n) \X (1..n) : p[1] < p[2] } }

InitGraph ==
    /\ \E n \in 0..MaxNodes : \E E \in EdgesOn(n) :
          gr = [ pc       |-> "built",
                 nodes    |-> 1..n,
                 edges    |-> E,
                 built    |-> E,
                 visited  |-> {},
                 disc     |-> [ u \in 1..n |-> 0 ],
                 low      |-> [ u \in 1..n |-> 0 ],
                 parent   |-> [ u \in 1..n |-> 0 ],
                 time     |-> 0,
                 stack    |-> << >>,
                 found    |-> {},
                 bridges  |-> {} ]
    /\ sim = Idle
    /\ flt = Idle
    /\ cor = Idle
    /\ rd = Idle
    /\ mol = Idle
    /\ run = Idle

\* the record gr after the traversal has entered node u from node p
Entered(g, u, p) ==
    [ g EXCEPT !.visited = @ \cup { u },
               !.disc[u] = g.time,
               !.low[u]  = g.time,
               !.parent[u] = p,
               !.time    = @ + 1,
               !.stack   = << [node |-> u, todo |-> neighbors(g.edges, u)] >> \o @ ]

\* bridges() called again on the graph already pruned
BridgesCallAgain ==
    /\ gr.pc \in { "built", "pruned" }
    /\ gr' = [ gr EXCEPT !.pc = "dfs" ]
    /\ UNCHANGED << sim, flt, cor, rd, mol, run >>

\* bridges = clone_graph.bridges(): the call starts the traversal
BridgesCall ==
    /\ gr.pc = "built"
    /\ gr' = [ gr EXCEPT !.pc = "dfs" ]
    /\ UNCHANGED << sim, flt, cor, rd, mol, run >>

\* the outer loop: the next node not yet visited becomes the root of a tree
DfsRoot ==
    /\ gr.pc = "dfs"
    /\ gr.stack = << >>
    /\ gr.nodes \ gr.visited # {}
    /\ LET u == CHOOSE x \in gr.nodes \ gr.visited :
                    \A y \in gr.nodes \ gr.visited : x <= y
       IN  gr' = Entered(gr, u, 0)
    /\ UNCHANGED << sim, flt, cor, rd, mol, run >>

\* the inner loop looks at one more neighbour v of the node u on top of the
\* stack: a tree edge descends, any other edge but the one to the parent
\* lowers low[u] to disc[v]
DfsEdge ==
    /\ gr.pc = "dfs"
    /\ gr.stack # << >>
    /\ LET u == gr.stack[1].node
       IN  \E v \in gr.stack[1].todo :
              LET g == [ gr EXCEPT !.stack[1].todo = @ \ { v } ]
              IN  gr' = IF v \notin gr.visited THEN Entered(g, v, u)
                        ELSE IF v # gr.parent[u]
                             THEN [ g EXCEPT !.low[u] = Min(@, gr.disc[v]) ]
                             ELSE g
    /\ UNCHANGED << sim, flt, cor, rd, mol, run >>

\* the return from node u to its parent p: low[p] takes low[u] if smaller, and
\* the tree edge is a bridge if nothing below u reaches p or above
DfsReturn ==
    /\ gr.pc = "dfs"
    /\ gr.stack # << >>
    /\ gr.stack[1].todo = {}
    /\ LET u == gr.stack[1].node
           p == gr.parent[u]
       IN  gr' = IF p = 0 THEN [ gr EXCEPT !.stack = Tail(@) ]
                 ELSE [ gr EXCEPT !.stack = Tail(@),
                                  !.low[p] = Min(@, gr.low[u]),
                                  !.found  = IF is_bridge(gr.low[u], gr.disc[p])
                                             THEN @ \cup { { p, u } } ELSE @ ]
    /\ UNCHANGED << sim, flt, cor, rd, mol, run >>

\* every node is visited: bridges() returns what it has found
BridgesReturn ==
    /\ gr.pc = "dfs"
    /\ gr.stack = << >>
    /\ gr.nodes \ gr.visited = {}
    /\ gr' = [ gr EXCEPT !.pc = "bridged", !.bridges = gr.found ]
    /\ UNCHANGED << sim, flt, cor, rd, mol, run >>

\* remove_edges that takes out one edge of the bridge set only
RemoveOneEdge ==
    /\ gr.pc = "bridged"
    /\ gr' = [ gr EXCEPT !.pc = "pruned",
                         !.edges = IF gr.bridges = {} THEN @
                                   ELSE @ \ { CHOOSE e \in gr.bridges : TRUE } ]
    /\ UNCHANGED << sim, flt, cor, rd, mol, run >>

\* clone_graph.remove_edges(bridges)
RemoveEdges ==
    /\ gr.pc = "bridged"
    /\ gr' = [ gr EXCEPT !.pc = "pruned", !.edges = @ \ gr.bridges ]
    /\ UNCHANGED << sim, flt, cor, rd, mol, run >>

NextGraph ==
    BridgesCall \/ DfsRoot \/ DfsEdge \/ DfsReturn \/ BridgesReturn \/ RemoveEdges

SpecGraph == InitGraph /\ [][NextGraph]_vars

\* the number of connected components of the graph (N, E)
NumComponents(N, E) == Cardinality(Components(N, E))

\* the edge e lies on a cycle of the graph with edge set E
OnCycle(e, E) == \E u \in e : e \subseteq ComponentOf({ u }, E \ { e })

\* C10: the bridge set computed by the traversal is exactly the set of edges
\* whose removal increases the number of connected components: no edge on a
\* cycle is reported, and removing the set never decreases the number of
\* components.
C10_BridgesExact ==
    gr.pc \in { "bridged", "pruned" } =>
        /\ gr.bridges = { e \in gr.built :
                            NumComponents(gr.nodes, gr.built \ { e })
                              > NumComponents(gr.nodes, gr.built) }
        /\ \A e \in gr.bridges : ~OnCycle(e, gr.built)
        /\ NumComponents(gr.nodes, gr.built \ gr.bridges)
             >= NumComponents(gr.nodes, gr.built)

\* the traversal has finished on a graph that holds a cycle and a bridge
C10_Witness ==
    /\ gr.pc = "bridged"
    /\ gr.bridges # {}
    /\ \E e \in gr.built : OnCycle(e, gr.built)

(***************************************************************************)
(* SpecClone: the clone graph in run_trex, from the filtered cells to the   *)
(* final clones: CloneGraph(cells), components.txt, bridges(),              *)
(* remove_edges(bridges), components_corrected.txt, clones() and the final  *)
(* assertion.  The nodes are the positions of the cells in the cell list.   *)
(***************************************************************************)
\* largest number of filtered cells
MaxCells == 4

\* the inventories of the filtered cells, as sets of clone_ids (each counted twice)
Inventories == << { "A" }, { "A", "B" }, { "B" }, { "C" } >>

\* the lists of up to MaxCells cells: cell i has cell_id i
CellLists ==
    LET sorted == UNION { { q \in [ 1..n -> 1..Len(Inventories) ] :
                              \A i \in 1..(n - 1) : q[i] <= q[i + 1] } : n \in 0..MaxCells }
    IN  { [ i \in DOMAIN q |->
              [cell_id |-> i, counts |-> [ k \in Inventories[q[i]] |-> 2 ]] ] : q \in sorted }

\* Example A of the specification: inventories {A:5}, {A:3,B:2}, {C:4}
ExampleA ==
    << [cell_id |-> 1, counts |-> [ k \in { "A" } |-> 5 ]],
       [cell_id |-> 2, counts |-> [ k \in { "A", "B" } |-> IF k = "A" THEN 3 ELSE 2 ]],
       [cell_id |-> 3, counts |-> [ k \in { "C" } |-> 4 ]] >>

\* the Jaccard index of the clone_id sets a and b is the threshold num/den or
\* higher
jaccard_at_least(a, b, threshold) ==
    Cardinality(a \cap b) * threshold[2] >= threshold[1] * Cardinality(a \cup b)

\* the Jaccard index of the clone_id sets a and b is higher than the threshold
\* num/den
jaccard_higher(a, b, threshold) ==
    Cardinality(a \cap b) * threshold[2] > threshold[1] * Cardinality(a \cup b)

\* the edges of a graph that joins only cells with equal sets of clone_ids
clone_graph_edges_equal(cells, threshold) ==
    { e \in { { u, v } : << u, v >> \in { p \in (DOMAIN cells) \X (DOMAIN cells) : p[1] < p[2] } } :
        \E u, v \in e : u < v /\ DOMAIN cells[u].counts = DOMAIN cells[v].counts }

\* the edges of CloneGraph(cells, jaccard_threshold)
clone_graph_edges(cells, threshold) ==
    { e \in { { u, v } : << u, v >> \in { p \in (DOMAIN cells) \X (DOMAIN cells) : p[1] < p[2] } } :
        \E u, v \in e :
           /\ u < v
           /\ jaccard_higher(DOMAIN cells[u].counts, DOMAIN cells[v].counts, threshold) }

\* the sum of a function's values
RECURSIVE SumOf(_)
SumOf(f) ==
    IF DOMAIN f = {} THEN 0
    ELSE LET x == CHOOSE y \in DOMAIN f : TRUE
         IN  f[x] + SumOf([ y \in DOMAIN f \ { x } |-> f[y] ])

\* the count of the cells in the clones with every clone size taken once
number_of_cells_in_sizes(clones) ==
    LET sizes == { Cardinality(c) : c \in clones }
    IN  SumOf([ k \in sizes |-> k ])

\* clone_sizes = Counter(len(cells) for clone_id, cells in clones);
\* number_of_cells_in_clones = sum(k * v for k, v in clone_sizes.items())
number_of_cells_in(clones) ==
    LET sizes       == { Cardinality(c) : c \in clones }
        clone_sizes == [ k \in sizes |-> Cardinality({ c \in clones : Cardinality(c) = k }) ]
    IN  SumOf([ k \in sizes |-> k * clone_sizes[k] ])

InitClone ==
    /\ \E cells \in CellLists \cup { ExampleA } :
       \E threshold \in { << 0, 1 >>, << 1, 2 >> } :
          /\ (cells = ExampleA) => threshold = << 0, 1 >>
          /\ gr = [ pc       |-> "cells",
                    cells    |-> cells,
                    jaccard_threshold |-> threshold,
                    nodes    |-> {},
                    edges    |-> {},
                    built    |-> {},
                    visited  |-> {},
                    disc     |-> << >>,
                    low      |-> << >>,
                    parent   |-> << >>,
                    time     |-> 0,
                    stack    |-> << >>,
                    found    |-> {},
                    bridges  |-> {},
                    components_txt |-> {},
                    components_corrected_txt |-> {},
                    clones   |-> {},
                    number_of_cells_in_clones |-> 0,
                    log      |-> << >> ]
    /\ sim = Idle
    /\ flt = Idle
    /\ cor = Idle
    /\ rd = Idle
    /\ mol = Idle
    /\ run = Idle

\* clone_graph = CloneGraph(cells, jaccard_threshold=jaccard_threshold)
BuildGraph ==
    /\ gr.pc = "cells"
    /\ LET E == clone_graph_edges(gr.cells, gr.jaccard_threshold)
           N == DOMAIN gr.cells
       IN  gr' = [ gr EXCEPT !.pc = "graph",
                             !.nodes = N,
                             !.edges = E,
                             !.built = E,
                             !.disc = [ u \in N |-> 0 ],
                             !.low = [ u \in N |-> 0 ],
                             !.parent = [ u \in N |-> 0 ],
                             !.log = Append(@, "build") ]
    /\ UNCHANGED << sim, flt, cor, rd, mol, run >>

\* components.txt is written from clone_graph.components_txt()
WriteComponents ==
    /\ gr.pc = "graph"
    /\ gr' = [ gr EXCEPT !.pc = "built",
                         !.components_txt = Components(gr.nodes, gr.edges),
                         !.log = Append(@, "components") ]
    /\ UNCHANGED << sim, flt, cor, rd, mol, run >>

\* components_corrected.txt is written from clone_graph.components_txt()
WriteComponentsCorrected ==
    /\ gr.pc = "pruned"
    /\ gr' = [ gr EXCEPT !.pc = "reported",
                         !.components_corrected_txt = Components(gr.nodes, gr.edges),
                         !.log = Append(@, "components_corrected") ]
    /\ UNCHANGED << sim, flt, cor, rd, mol, run >>

\* clones = clone_graph.clones(), with the count of the cells in them
Clones ==
    /\ gr.pc = "reported"
    /\ LET clones == Components(gr.nodes, gr.edges)
       IN  gr' = [ gr EXCEPT !.pc = "clones",
                             !.clones = clones,
                             !.number_of_cells_in_clones = number_of_cells_in(clones),
                             !.log = Append(@, "clones") ]
    /\ UNCHANGED << sim, flt, cor, rd, mol, run >>

\* assert len(cells) == number_of_cells_in_clones
AssertCellsInClones ==
    /\ gr.pc = "clones"
    /\ gr' = [ gr EXCEPT !.pc = IF Len(gr.cells) = gr.number_of_cells_in_clones
                                THEN "done" ELSE "AssertionError" ]
    /\ UNCHANGED << sim, flt, cor, rd, mol, run >>

NextClone ==
    \/ BuildGraph
    \/ WriteComponents
    \/ BridgesCall
    \/ DfsRoot
    \/ DfsEdge
    \/ DfsReturn
    \/ BridgesReturn
    \/ RemoveEdges
    \/ WriteComponentsCorrected
    \/ Clones
    \/ AssertCellsInClones

SpecClone == InitClone /\ [][NextClone]_vars

\* C11: the final clones partition the filtered cells: every filtered cell,
\* isolated ones included, is a member of exactly one clone, the clone sizes
\* add up to the number of filtered cells, and the assertion at the end of
\* run_trex does not fail.
C11_ClonesPartitionCells ==
    gr.pc \in { "clones", "done", "AssertionError" } =>
        /\ \A u \in DOMAIN gr.cells :
              Cardinality({ c \in gr.clones : u \in c }) = 1
        /\ \A c \in gr.clones : c # {} /\ c \subseteq DOMAIN gr.cells
        /\ gr.number_of_cells_in_clones = Len(gr.cells)
        /\ gr.pc # "AssertionError"

\* the run has passed the assertion with a clone of several cells and a cell
\* that was isolated from the start
C11_Witness ==
    /\ gr.pc = "done"
    /\ \E c \in gr.clones : Cardinality(c) > 1
    /\ \E u \in gr.nodes : neighbors(gr.built, u) = {} /\ { u } \in gr.clones

\* C12: Example A.  For the cells {A:5}, {A:3,B:2}, {C:4} and the mode 'at
\* least one shared clone_id', Build yields the components {cell1,cell2} and
\* {cell3}, the single edge cell1-cell2 is reported as a bridge, and after
\* pruning the partition is three singleton clones.
C12_ExampleA ==
    (gr.pc # "idle" /\ gr.pc # "cells" /\ gr.cells = ExampleA) =>
        /\ gr.built = { { 1, 2 } }
        /\ gr.pc # "graph" => gr.components_txt = { { 1, 2 }, { 3 } }
        /\ gr.pc \in { "bridged", "pruned", "reported", "clones", "done" } =>
              gr.bridges = { { 1, 2 } }
        /\ gr.pc \in { "clones", "done" } => gr.clones = { { 1 }, { 2 }, { 3 } }

\* the run on Example A has produced its clones
C12_Witness ==
    /\ gr.pc = "done"
    /\ gr.cells = ExampleA
    /\ gr.jaccard_threshold = << 0, 1 >>
    /\ Cardinality(gr.clones) = 3

(***************************************************************************)
(* SpecExtract: read_bam's barcode extraction from one read.  A read is its *)
(* alignment, one operation per base: "S" soft-clipped, "M" aligned, "I"    *)
(* inserted, "D" deleted from the read.  None is written -1.                *)
(***************************************************************************)
\* largest number of alignment operations of a read
MaxOps == 5

\* largest reference position of the first aligned base and of start_bc
MaxRef == 3

\* largest number of bases of the barcode locus
MaxLocus == 3

None == -1

\* the bases of the query sequence, by query position
Bases == << "A", "C", "G", "T" >>
queryseq(query_pos) == Bases[(query_pos % 4) + 1]

\* the alignments: soft clips, an aligned part from "M" to "M", soft clips
Alignments ==
    { c \in UNION { [ 1..n -> { "S", "M", "I", "D" } ] : n \in 1..MaxOps } :
        \E a, b \in 1..Len(c) :
           /\ a <= b
           /\ c[a] = "M" /\ c[b] = "M"
           /\ \A i \in 1..Len(c) : (c[i] = "S") <=> (i < a \/ i > b) }

\* read.get_aligned_pairs() from alignment operation i on, at query position q
\* and reference position r
RECURSIVE get_aligned_pairs(_, _, _, _)
get_aligned_pairs(c, i, q, r) ==
    IF i > Len(c) THEN << >>
    ELSE IF c[i] = "M" THEN << << q, r >> >> \o get_aligned_pairs(c, i + 1, q + 1, r + 1)
    ELSE IF c[i] = "D" THEN << << None, r >> >> \o get_aligned_pairs(c, i + 1, q, r + 1)
    ELSE << << q, None >> >> \o get_aligned_pairs(c, i + 1, q + 1, r)

\* read.query_alignment_start: the number of soft-clipped bases in front
query_alignment_start(c) == Cardinality({ i \in 1..Len(c) : \A j \in 1..i : c[j] = "S" })

\* read.infer_query_length(): the bases of the read, soft-clipped ones included
infer_query_length(c) == Cardinality({ i \in 1..Len(c) : c[i] # "D" })

\* read.query_alignment_end: the query position after the last aligned base
query_alignment_end(c) ==
    infer_query_length(c) - Cardinality({ i \in 1..Len(c) : \A j \in i..Len(c) : c[j] = "S" })

\* n copies of the character ch
Repeat(ch, n) == [ i \in 1..n |-> ch ]

\* the symbols one aligned pair adds to the barcode
pair_symbols(read, query_pos, ref_pos) ==
    LET len_bc      == read.end_bc - read.start_bc - 1
        ref_start   == read.reference_start
        start_check == read.start_bc - infer_query_length(read.cigar)
        end_check   == start_check + len_bc + 2
    IN  IF ref_pos = None
        THEN IF start_check < ref_start /\ ref_start < end_check
                /\ query_alignment_end(read.cigar) <= query_pos
             THEN IF read.start_bc < ref_start + query_pos
                     /\ ref_start + query_pos < read.end_bc
                  THEN << queryseq(query_pos) >> ELSE << >>
             ELSE IF query_alignment_start(read.cigar) > query_pos
                     /\ read.start_bc < (ref_start - len_bc) + query_pos
                     /\ (ref_start - len_bc) + query_pos < read.end_bc
                  THEN << queryseq(query_pos) >> ELSE << >>
        ELSE IF read.start_bc < ref_pos /\ ref_pos < read.end_bc
             THEN IF query_pos = None THEN << "0" >> ELSE << queryseq(query_pos) >>
             ELSE << >>

\* the barcode after the loop over the pairs: an empty one becomes all '-', a
\* short one is filled with '-' behind or in front
fill_barcode(read, barcode) ==
    LET len_bc      == read.end_bc - read.start_bc - 1
        start_check == read.start_bc - infer_query_length(read.cigar)
        end_check   == start_check + len_bc + 2
        b           == IF barcode = << >> THEN Repeat("-", len_bc) ELSE barcode
    IN  IF Len(b) < len_bc
        THEN IF start_check < read.reference_start /\ read.reference_start < end_check
             THEN b \o Repeat("-", len_bc - Len(b))
             ELSE Repeat("-", len_bc - Len(b)) \o b
        ELSE b

InitExtract ==
    /\ \E c \in Alignments :
       \E ref_start \in 0..MaxRef :
       \E start_bc \in 0..MaxRef :
       \E len \in 1..MaxLocus :
          rd = [ pc      |-> "pairs",
                 read    |-> [cigar |-> c, reference_start |-> ref_start,
                              start_bc |-> start_bc, end_bc |-> start_bc + len + 1],
                 pairs   |-> get_aligned_pairs(c, 1, 0, ref_start),
                 barcode |-> << >> ]
    /\ sim = Idle
    /\ flt = Idle
    /\ cor = Idle
    /\ gr = Idle
    /\ mol = Idle
    /\ run = Idle

\* one turn of the loop over read.get_aligned_pairs()
ExtractPair ==
    /\ rd.pc = "pairs"
    /\ rd.pairs # << >>
    /\ rd' = [ rd EXCEPT !.pairs = Tail(@),
                         !.barcode = @ \o pair_symbols(rd.read, rd.pairs[1][1], rd.pairs[1][2]) ]
    /\ UNCHANGED << sim, flt, cor, gr, mol, run >>

\* after the loop: the barcode is filled and the read is appended to read_col
AppendRead ==
    /\ rd.pc = "pairs"
    /\ rd.pairs = << >>
    /\ rd' = [ rd EXCEPT !.pc = "read", !.barcode = fill_barcode(rd.read, rd.barcode) ]
    /\ UNCHANGED << sim, flt, cor, gr, mol, run >>

NextExtract == ExtractPair \/ AppendRead

SpecExtract == InitExtract /\ [][NextExtract]_vars

\* C13: for every read, every locus interval and every alignment pair list,
\* the extracted barcode has exactly the locus length and holds only symbols
\* of A, C, G, T, 0, -.
C13_FixedLength ==
    rd.pc = "read" =>
        /\ Len(rd.barcode) = rd.read.end_bc - rd.read.start_bc - 1
        /\ Range(rd.barcode) \subseteq { "A", "C", "G", "T", "0", "-" }

(***************************************************************************)
(* SpecMolecule: the reads of read_bam are sorted, grouped by cell and UMI  *)
(* and each group becomes one molecule with a consensus barcode.            *)
(***************************************************************************)
\* largest number of reads
MaxReads == 3

\* the barcodes of the reads, all of the locus length
ReadBarcodes == { << "A", "C" >>, << "A", "-" >>, << "0", "C" >>, << "C", "C" >> }

\* len_bc, the length of every barcode
len_bc == Len(CHOOSE b \in ReadBarcodes : TRUE)

\* the reads (cell_id, umi, barcode) in the order of the BAM file
ReadLists ==
    LET kinds == { r \in [cell_id : { 1, 2 }, umi : { 1, 2 }, barcode : ReadBarcodes] :
                     r.cell_id = 1 \/ r.umi = 1 }
    IN  UNION { [ 1..n -> kinds ] : n \in 0..MaxReads }

\* the sort key (umi, cell_id, barcode) of read a lies before that of read b
key_less(a, b) ==
    \/ a.umi < b.umi
    \/ a.umi = b.umi /\ a.cell_id < b.cell_id
    \/ a.umi = b.umi /\ a.cell_id = b.cell_id /\ StrLess(a.barcode, b.barcode)

\* the reads left in the order of the BAM file
unsorted_reads(read_col) == read_col

\* sorted(read_col, key=lambda read: (read[1], read[0], read[2]))
RECURSIVE sorted_reads(_)
sorted_reads(read_col) ==
    IF read_col = << >> THEN << >>
    ELSE LET front == sorted_reads(SubSeq(read_col, 1, Len(read_col) - 1))
             x     == read_col[Len(read_col)]
             k     == Cardinality({ i \in 1..Len(front) : ~key_less(x, front[i]) })
         IN  SubSeq(front, 1, k) \o << x >> \o SubSeq(front, k + 1, Len(front))

\* group_pos with the groups cut where the UMI changes only
group_pos_umi_only(read_sorted) ==
    LET starts == { 0 } \cup
                  { i + 1 : i \in { j \in 0..(Len(read_sorted) - 2) :
                        read_sorted[j + 1].umi # read_sorted[j + 2].umi } }
    IN  [ i \in 1..Cardinality(starts) |->
            CHOOSE s \in starts : Cardinality({ x \in starts : x < s }) = i - 1 ]

\* group_pos: the 0-based positions where a new (cell, UMI) group starts
group_pos(read_sorted) ==
    LET starts == { 0 } \cup
                  { i + 1 : i \in { j \in 0..(Len(read_sorted) - 2) :
                        ~(read_sorted[j + 1].umi = read_sorted[j + 2].umi
                          /\ read_sorted[j + 1].cell_id = read_sorted[j + 2].cell_id) } }
    IN  [ i \in 1..Cardinality(starts) |->
            CHOOSE s \in starts : Cardinality({ x \in starts : x < s }) = i - 1 ]

\* groups: the slices of read_sorted between the group positions
groups_of(read_sorted) ==
    LET pos == group_pos(read_sorted)
    IN  [ i \in 1..Len(pos) |->
            SubSeq(read_sorted, pos[i] + 1,
                   IF i < Len(pos) THEN pos[i + 1] ELSE Len(read_sorted)) ]

\* letters = np.array(['A', 'C', 'G', 'T', '-', '0'])
letters == << "A", "C", "G", "T", "-", "0" >>

\* the array align of one barcode, in tenths: 10 for a base, 1 for '-' and '0'
align_of(barcode) ==
    [ l \in 1..len_bc |->
        [ k \in 1..6 |->
            IF l <= Len(barcode) /\ barcode[l] = letters[k]
            THEN (IF k <= 4 THEN 10 ELSE 1) ELSE 0 ] ]

\* np.argmax of one row: the first position of the greatest value
argmax(row) ==
    CHOOSE k \in DOMAIN row :
        /\ \A j \in DOMAIN row : row[j] <= row[k]
        /\ \A j \in DOMAIN row : j < k => row[j] < row[k]

\* consens_np: the sum of the arrays of all barcodes of the group
RECURSIVE consens_np(_)
consens_np(group) ==
    IF group = << >> THEN [ l \in 1..len_bc |-> [ k \in 1..6 |-> 0 ] ]
    ELSE LET rest  == consens_np(SubSeq(group, 1, Len(group) - 1))
             align == align_of(group[Len(group)].barcode)
         IN  [ l \in 1..len_bc |-> [ k \in 1..6 |-> rest[l][k] + align[l][k] ] ]

\* bin_consens = np.argmax(align, axis=1): align is the array of the last
\* barcode of the group; consensus = ''.join(letters[bin_consens])
consensus(group) ==
    LET align == align_of(group[Len(group)].barcode)
    IN  [ l \in 1..len_bc |-> letters[argmax(align[l])] ]

\* the number of reads aggregated into the molecule
read_count_of(group) == Len(group)

\* the molecule of a one-read group with the barcode stripped of '-'
single_read_stripped(group) ==
    [cell_id |-> group[1].cell_id, umi |-> group[1].umi,
     clone_id |-> strip(group[1].barcode, "-"), read_count |-> read_count_of(group)]

\* the molecule of a one-read group
single_read_molecule(group) ==
    [cell_id |-> group[1].cell_id, umi |-> group[1].umi,
     clone_id |-> group[1].barcode, read_count |-> read_count_of(group)]

\* one turn of the loop over the groups
molecule_of(group) ==
    IF Len(group) > 1
    THEN [cell_id |-> group[1].cell_id, umi |-> group[1].umi,
          clone_id |-> consensus(group), read_count |-> read_count_of(group)]
    ELSE single_read_molecule(group)

\* mol_col for the reads of a BAM file
mol_col_of(read_col) ==
    LET groups == groups_of(sorted_reads(read_col))
    IN  [ i \in DOMAIN groups |-> molecule_of(groups[i]) ]

InitMolecule ==
    /\ \E reads \in ReadLists :
          mol = [ pc          |-> "read_col",
                  read_col    |-> reads,
                  read_sorted |-> << >>,
                  groups      |-> << >>,
                  mol_col     |-> << >>,
                  error       |-> "none" ]
    /\ sim = Idle
    /\ flt = Idle
    /\ cor = Idle
    /\ gr = Idle
    /\ rd = Idle
    /\ run = Idle

\* read_bam returns the sorted reads
SortReads ==
    /\ mol.pc = "read_col"
    /\ mol' = [ mol EXCEPT !.pc = "sorted", !.read_sorted = sorted_reads(mol.read_col) ]
    /\ UNCHANGED << sim, flt, cor, gr, rd, run >>

\* the groups of reads with identical UMI and cell_id
GroupReads ==
    /\ mol.pc = "sorted"
    /\ mol' = [ mol EXCEPT !.pc = "groups", !.groups = groups_of(mol.read_sorted) ]
    /\ UNCHANGED << sim, flt, cor, gr, rd, run >>

\* the loop over the groups takes the next group; group[0] of an empty group
\* raises IndexError
AppendMolecule ==
    /\ mol.pc = "groups"
    /\ mol.groups # << >>
    /\ mol' = IF mol.groups[1] = << >>
              THEN [ mol EXCEPT !.pc = "failed", !.error = "IndexError" ]
              ELSE [ mol EXCEPT !.groups = Tail(@),
                                !.mol_col = Append(@, molecule_of(mol.groups[1])) ]
    /\ UNCHANGED << sim, flt, cor, gr, rd, run >>

\* the loop over the groups is over
MoleculesDone ==
    /\ mol.pc = "groups"
    /\ mol.groups = << >>
    /\ mol' = [ mol EXCEPT !.pc = "molecules" ]
    /\ UNCHANGED << sim, flt, cor, gr, rd, run >>

NextMolecule == SortReads \/ GroupReads \/ AppendMolecule \/ MoleculesDone

SpecMolecule == InitMolecule /\ [][NextMolecule]_vars

\* the reads of the BAM file with the cell_id and UMI of molecule m, in file order
ReadsOf(m) ==
    SelectSeq(mol.read_col, LAMBDA r : r.cell_id = m.cell_id /\ r.umi = m.umi)

\* C14: the consensus of a molecule is invariant under permutation of the
\* reads of its group: every order of the reads yields the same molecules.
C14_PermutationInvariant ==
    mol.pc = "molecules" =>
        \A q \in IndexOrders(Len(mol.read_col)) :
            mol_col_of([ i \in DOMAIN mol.read_col |-> mol.read_col[q[i]] ]) = mol.mol_col

\* a molecule of several reads with different barcodes that came out of the
\* BAM file in descending order
C14_Witness ==
    /\ mol.pc = "molecules"
    /\ \E i \in DOMAIN mol.mol_col :
          LET group == ReadsOf(mol.mol_col[i])
          IN  /\ Len(group) > 1
              /\ \E a, b \in DOMAIN group : a < b /\ StrLess(group[b].barcode, group[a].barcode)

\* the symbol of the highest summed weight at every position, equal weights
\* resolved by the priority A, C, G, T, -, 0
plurality(group) ==
    [ l \in 1..len_bc |-> letters[argmax(consens_np(group)[l])] ]

\* C15: for a group of n > 1 reads the consensus symbol at each position is the
\* symbol with the highest summed weight over all n reads (A, C, G, T weigh 1,
\* '-' and '0' weigh 0.1, equal weights resolved by the priority A, C, G, T,
\* -, 0), and the molecule's read_count is n.
C15_WeightedPlurality ==
    mol.pc = "molecules" =>
        \A i \in DOMAIN mol.mol_col :
            LET group == ReadsOf(mol.mol_col[i])
            IN  Len(group) > 1 =>
                   /\ mol.mol_col[i].clone_id = plurality(group)
                   /\ mol.mol_col[i].read_count = Len(group)

\* C16: a molecule built from a group of exactly one read has that read's
\* barcode as its clone_id, character for character, and read_count 1.
C16_SingleReadVerbatim ==
    mol.pc = "molecules" =>
        \A i \in DOMAIN mol.mol_col :
            LET group == ReadsOf(mol.mol_col[i])
            IN  Len(group) = 1 =>
                   /\ mol.mol_col[i].clone_id = group[1].barcode
                   /\ mol.mol_col[i].read_count = 1

\* a molecule of one read whose barcode ends in the sentinel '-', next to a
\* molecule of several reads
C16_Witness ==
    /\ mol.pc = "molecules"
    /\ \E i, j \in DOMAIN mol.mol_col :
          /\ Len(ReadsOf(mol.mol_col[i])) = 1
          /\ mol.mol_col[i].clone_id = << "A", "-" >>
          /\ Len(ReadsOf(mol.mol_col[j])) > 1

\* the entry k of the cell is one the filter of the run leaves in place
EntryKept(cell, k) ==
    \/ cell.counts[k] > 1
    \/ IF flt.should_run_visium
       THEN ~SingleReadInCell(flt.molecules, cell.cell_id, k)
       ELSE /\ TotalCount(flt.cells, k) <= 1
            /\ flt.keep_single_reads \/ ~SingleReadAnywhere(flt.molecules, k)

\* C18: a cell is in the filtered output if and only if at least one of its
\* entries survives filtering; no cell in the result of filter_cells or
\* filter_visium has an empty inventory, and the unfiltered cell list still
\* holds every cell.
C18_NoEmptyCell ==
    flt.pc = "filtered" =>
        /\ \A j \in DOMAIN flt.filtered :
              /\ DOMAIN flt.filtered[j].counts # {}
              /\ \E i \in DOMAIN flt.cells : flt.cells[i].cell_id = flt.filtered[j].cell_id
        /\ \A i \in DOMAIN flt.cells :
              (\E j \in DOMAIN flt.filtered : flt.filtered[j].cell_id = flt.cells[i].cell_id)
                 <=> (\E k \in DOMAIN flt.cells[i].counts : EntryKept(flt.cells[i], k))
        /\ flt.cells = compute_cells(flt.molecules, flt.min_length)
        /\ \A i \in DOMAIN flt.molecules :
              long_enough(flt.molecules[i].clone_id, flt.min_length) =>
                 \E j \in DOMAIN flt.cells : flt.cells[j].cell_id = flt.molecules[i].cell_id

\* the filter has dropped a cell that lost all its entries and kept another
\* cell that lost some
C18_Witness ==
    /\ flt.pc = "filtered"
    /\ \E i \in DOMAIN flt.cells :
          \A j \in DOMAIN flt.filtered : flt.filtered[j].cell_id # flt.cells[i].cell_id
    /\ \E i \in DOMAIN flt.cells : \E j \in DOMAIN flt.filtered :
          /\ flt.filtered[j].cell_id = flt.cells[i].cell_id
          /\ DOMAIN flt.filtered[j].counts # DOMAIN flt.cells[i].counts

\* the position of a stage in run_trex
StageRank(pc) ==
    CASE pc = "cells" -> 1
      [] pc = "graph" -> 2
      [] pc = "built" -> 3
      [] pc = "dfs" -> 4
      [] pc = "bridged" -> 5
      [] pc = "pruned" -> 6
      [] pc = "reported" -> 7
      [] pc = "clones" -> 8
      [] OTHER -> 9

\* C19: the clone graph goes through Build, Prune, Partition in that order and
\* once each: the first component report is made before any edge is removed,
\* the bridge set is computed completely on the unpruned graph before the
\* first removal, exactly that set is removed in one step, bridges are never
\* computed again, and the second report and the clones are read only after
\* the removal.
C19_BuildPrunePartition ==
    [][ /\ StageRank(gr'.pc) >= StageRank(gr.pc)
        /\ StageRank(gr'.pc) = StageRank(gr.pc) => gr.pc = "dfs"
        /\ gr'.edges # gr.edges =>
              \/ gr.pc = "cells" /\ gr'.pc = "graph"
              \/ /\ gr.pc = "bridged" /\ gr'.pc = "pruned"
                 /\ gr.edges = gr.built
                 /\ gr'.edges = gr.built \ gr.bridges
        /\ gr'.components_txt # gr.components_txt =>
              /\ gr.pc = "graph" /\ gr.edges = gr.built
              /\ gr'.components_txt = Components(gr.nodes, gr.built)
        /\ (gr'.bridges # gr.bridges \/ gr'.pc = "bridged") =>
              /\ gr.pc = "dfs" /\ gr'.pc = "bridged"
              /\ gr.stack = << >> /\ gr.visited = gr.nodes
              /\ gr.edges = gr.built /\ gr'.edges = gr.built
              /\ gr'.bridges = gr.found
        /\ (gr'.found # gr.found \/ gr'.visited # gr.visited) =>
              gr.pc = "dfs" /\ gr.edges = gr.built
        /\ gr'.components_corrected_txt # gr.components_corrected_txt =>
              /\ gr.pc = "pruned"
              /\ gr'.components_corrected_txt = Components(gr.nodes, gr.built \ gr.bridges)
        /\ gr'.clones # gr.clones =>
              /\ gr.pc = "reported"
              /\ gr'.clones = Components(gr.nodes, gr.built \ gr.bridges)
        /\ gr'.built = gr.built \/ gr.pc = "cells" ]_vars

\* a run that has gone through all stages and has removed a bridge, so that
\* the two component reports differ
C19_Witness ==
    /\ gr.pc = "done"
    /\ gr.bridges # {}
    /\ gr.edges = gr.built \ gr.bridges
    /\ gr.components_txt # gr.components_corrected_txt
    /\ gr.clones = gr.components_corrected_txt
    /\ gr.log = << "build", "components", "components_corrected", "clones" >>

(***************************************************************************)
(* SpecRun: one run of the pipeline, from the command line of main to the   *)
(* clones of run_trex.                                                      *)
(***************************************************************************)
\* the command lines: the names of the transcriptome paths, --samples split at
\* the commas (empty: not given) and the --amplicon paths (empty: not given)
CommandLines ==
    [ path          : { << "x" >>, << "x", "x" >>, << "x", "y" >> },
      samples       : { << >>, << "a" >>, << "a", "a" >>, << "a", "b" >> },
      amplicon      : { << >>, << "p" >>, << "p", "q" >> } ]

\* the parameters of run_trex that the run uses
RunParams ==
    { [max_hamming |-> 0, min_length |-> 5, keep_single_reads |-> FALSE],
      [max_hamming |-> 1, min_length |-> 5, keep_single_reads |-> TRUE],
      [max_hamming |-> 0, min_length |-> 8, keep_single_reads |-> TRUE] }

\* the reads in the order in which the datasets deliver them
RunReadLists ==
    LET kinds == { r \in [cell_id : { 1, 2 }, umi : { 1, 2 },
                          barcode : { << "A", "A", "A", "A", "A", "A", "A", "A" >>,
                                      << "A", "A", "A", "A", "A", "A", "A", "-" >> }] :
                     r.cell_id = 1 \/ r.umi = 1 }
    IN  UNION { [ 1..n -> kinds ] : n \in 0..MaxReads }

\* sample_names as main derives them
sample_names_of(args) ==
    IF args.samples # << >> THEN args.samples
    ELSE IF Len(args.path) = 1 THEN << None >>
    ELSE args.path

\* len(sample_names) != len(sample_names): a list compared with itself
has_duplicates_self(sample_names) == Len(sample_names) # Len(sample_names)

\* len(sample_names) != len(set(sample_names))
has_duplicates(sample_names) == Len(sample_names) # Cardinality(Range(sample_names))

\* the consensus of a group of reads: at every position the symbol of the
\* highest summed weight, the first of letters among equals
vote(group) ==
    LET weight(l, k) == LET n == Cardinality({ j \in DOMAIN group : group[j].barcode[l] = letters[k] })
                        IN  IF k <= 4 THEN 10 * n ELSE n
    IN  [ l \in 1..Len(group[1].barcode) |-> letters[argmax([ k \in 1..6 |-> weight(l, k) ])] ]

\* compute_molecules(reads): one molecule per group of consecutive reads with
\* the same cell_id and UMI
compute_molecules(reads) ==
    IF reads = << >> THEN << >>
    ELSE LET groups == groups_of(reads)
         IN  [ i \in DOMAIN groups |->
                 [cell_id    |-> groups[i][1].cell_id,
                  umi        |-> groups[i][1].umi,
                  clone_id   |-> IF Len(groups[i]) = 1 THEN groups[i][1].barcode
                                 ELSE vote(groups[i]),
                  read_count |-> Len(groups[i])] ]

\* clone_graph.bridges() as a set: the edges whose removal adds a component
bridges_of(N, E) ==
    { e \in E : NumComponents(N, E \ { e }) > NumComponents(N, E) }

\* the tables of a run whose sorted reads are reads and whose
\* list(set(clone_ids)) comes out as sequences
tables_of(reads, params, sequences) ==
    LET molecules == compute_molecules(reads)
        corrected == correct_clone_ids(molecules, params.max_hamming, params.min_length,
                                       sequences)
        cells     == compute_cells(corrected, params.min_length)
        filtered  == filter_cells(cells, corrected, params.keep_single_reads)
        E         == clone_graph_edges(filtered, << 0, 1 >>)
    IN  [ reads |-> reads, molecules |-> molecules, molecules_corrected |-> corrected,
          cells |-> cells, cells_filtered |-> filtered,
          components |-> Components(DOMAIN filtered, E),
          clones |-> Components(DOMAIN filtered, E \ bridges_of(DOMAIN filtered, E)) ]

InitRun ==
    /\ \E args \in CommandLines :
       \E params \in RunParams :
          run = [ pc           |-> "main",
                  args         |-> args,
                  params       |-> params,
                  sample_names |-> << >>,
                  arrived      |-> << >>,
                  loaded       |-> FALSE,
                  sequences    |-> << >>,
                  tables       |-> << >>,
                  written      |-> << "log.txt" >>,
                  error        |-> "none" ]
    /\ sim = Idle
    /\ flt = Idle
    /\ cor = Idle
    /\ gr = Idle
    /\ rd = Idle
    /\ mol = Idle

\* main: the sample names and their number
CheckSamples ==
    /\ run.pc = "main"
    /\ LET names == sample_names_of(run.args)
       IN  run' = IF Len(names) # Len(run.args.path)
                  THEN [ run EXCEPT !.pc = "failed", !.sample_names = names,
                                    !.error = "CommandLineError: number of sample names" ]
                  ELSE [ run EXCEPT !.pc = "samples", !.sample_names = names ]
    /\ UNCHANGED << sim, flt, cor, gr, rd, mol >>

\* main: the number of amplicon datasets, if any are given
CheckAmplicon ==
    /\ run.pc = "samples"
    /\ run' = IF run.args.amplicon # << >> /\ Len(run.args.path) # Len(run.args.amplicon)
              THEN [ run EXCEPT !.pc = "failed",
                                !.error = "CommandLineError: amplicon datasets" ]
              ELSE [ run EXCEPT !.pc = "run_trex" ]
    /\ UNCHANGED << sim, flt, cor, gr, rd, mol >>

\* run_trex: the sample names need to be unique
CheckUnique ==
    /\ run.pc = "run_trex"
    /\ run' = IF has_duplicates(run.sample_names)
              THEN [ run EXCEPT !.pc = "failed",
                                !.error = "TrexError: sample names need to be unique" ]
              ELSE [ run EXCEPT !.pc = "reader" ]
    /\ UNCHANGED << sim, flt, cor, gr, rd, mol >>

\* read_all without the test "if not reads"
ReadAllUnchecked ==
    /\ run.pc = "reader"
    /\ \E reads \in RunReadLists :
          run' = [ run EXCEPT !.pc = "reads", !.loaded = TRUE, !.arrived = reads,
                              !.tables = [reads |-> sorted_reads(reads)],
                              !.written = Append(@, "reads.txt") ]
    /\ UNCHANGED << sim, flt, cor, gr, rd, mol >>

\* reads = dataset_reader.read_all(...): the reads arrive in some order and
\* are sorted by (umi, cell_id, clone_id); no reads is an error
ReadAll ==
    /\ run.pc = "reader"
    /\ \E reads \in RunReadLists :
          run' = IF reads = << >>
                 THEN [ run EXCEPT !.pc = "failed", !.loaded = TRUE,
                                   !.error = "TrexError: No reads left" ]
                 ELSE [ run EXCEPT !.pc = "reads", !.loaded = TRUE, !.arrived = reads,
                                   !.tables = [reads |-> sorted_reads(reads)],
                                   !.written = Append(@, "reads.txt") ]
    /\ UNCHANGED << sim, flt, cor, gr, rd, mol >>

\* molecules = compute_molecules(reads) and
\* corrected_molecules = correct_clone_ids(molecules, max_hamming, min_length),
\* where list(set(clone_ids)) comes out in some order
CorrectMolecules ==
    /\ run.pc = "reads"
    /\ \E sequences \in Orders(compute_molecules(run.tables.reads)) :
          run' = [ run EXCEPT !.pc = "corrected",
                              !.sequences = sequences,
                              !.tables = tables_of(run.tables.reads, run.params, sequences),
                              !.written = @ \o << "molecules.txt", "molecules_corrected.txt" >> ]
    /\ UNCHANGED << sim, flt, cor, gr, rd, mol >>

\* the cells, the filtered cells, the clone graph and the clones are written
WriteClones ==
    /\ run.pc = "corrected"
    /\ run' = [ run EXCEPT !.pc = "done",
                           !.written = @ \o << "cells.txt", "cells_filtered.txt",
                                               "components.txt",
                                               "components_corrected.txt", "clones.txt" >> ]
    /\ UNCHANGED << sim, flt, cor, gr, rd, mol >>

NextRun ==
    CheckSamples \/ CheckAmplicon \/ CheckUnique \/ ReadAll \/ CorrectMolecules \/ WriteClones

SpecRun == InitRun /\ [][NextRun]_vars

SortedPrefixDeterministic ==
    run.pc \in { "reads", "corrected", "done" } =>
        \A q \in IndexOrders(Len(run.arrived)) :
            LET reads == sorted_reads([ i \in DOMAIN run.arrived |-> run.arrived[q[i]] ])
            IN  /\ reads = run.tables.reads
                /\ run.pc # "reads" => compute_molecules(reads) = run.tables.molecules

\* the sample names of the command line hold a duplicate or differ in number
\* from the transcriptome datasets
BadSampleNames(args) ==
    LET names == sample_names_of(args)
    IN  \/ \E i, j \in DOMAIN names : i < j /\ names[i] = names[j]
        \/ Len(names) # Len(args.path)

\* the run has not got beyond its checks: no read is loaded, no table written
BeforeProcessing ==
    /\ ~run.loaded
    /\ run.written = << "log.txt" >>
    /\ run.pc \in { "main", "samples", "run_trex", "failed" }

\* the statement of C20 as it stands: any difference between the number of
\* amplicon inputs and of transcriptome inputs, none given included, is an
\* error raised before any read is loaded and any table written
C20_AnyAmpliconMismatch ==
    run.pc # "idle" =>
        ((BadSampleNames(run.args) \/ Len(run.args.amplicon) # Len(run.args.path))
            => BeforeProcessing)

\* C20: when the sample names hold a duplicate, or their number differs from
\* that of the transcriptome inputs, or amplicon inputs are given and their
\* number differs from that of the transcriptome inputs, the run fails before
\* any read is loaded and before any output table is written; a run without
\* amplicon inputs is not an error.
C20_ConfigErrorFirst ==
    run.pc # "idle" =>
        /\ (BadSampleNames(run.args)
              \/ (run.args.amplicon # << >> /\ Len(run.args.amplicon) # Len(run.args.path)))
             => BeforeProcessing
        /\ (run.pc = "failed" /\ ~run.loaded) =>
              (BadSampleNames(run.args)
                 \/ (run.args.amplicon # << >> /\ Len(run.args.amplicon) # Len(run.args.path)))
        /\ (run.args.amplicon = << >> /\ ~BadSampleNames(run.args)) => run.pc # "failed" \/ run.loaded

\* a run that has failed in run_trex on a duplicate sample name, with nothing
\* loaded or written
C20_Witness ==
    /\ run.pc = "failed"
    /\ run.sample_names = << "a", "a" >>
    /\ run.error = "TrexError: sample names need to be unique"
    /\ BeforeProcessing

\* the tables of reads, molecules, cells, components and clones
OutputTables ==
    { "reads.txt", "molecules.txt", "molecules_corrected.txt", "cells.txt",
      "cells_filtered.txt", "components.txt", "components_corrected.txt", "clones.txt" }

\* C21: when zero reads remain after the allow-list filtering, the run aborts
\* with a fatal error and writes none of the read, molecule, cell, component
\* or clone outputs.
C21_NoReadsAbort ==
    (run.pc # "idle" /\ run.loaded /\ run.arrived = << >>) =>
        /\ run.pc = "failed"
        /\ run.error = "TrexError: No reads left"
        /\ Range(run.written) \cap OutputTables = {}

\* read_all has returned no reads and the run has failed
C21_Witness ==
    /\ run.pc = "failed"
    /\ run.loaded
    /\ run.arrived = << >>
    /\ run.error = "TrexError: No reads left"
    /\ run.written = << "log.txt" >>

\* C22: when zero cells survive the filtering, the run aborts with a fatal
\* error and produces no further output: no component report and no clone
\* list is written for an empty cell set.
C22_NoCellsAbort ==
    (run.pc \in { "corrected", "done" } /\ run.tables.cells_filtered = << >>) =>
        /\ run.pc # "done"
        /\ Range(run.written) \cap
             { "components.txt", "components_corrected.txt", "clones.txt" } = {}

\* C23 as claimed: is_similar returns true or false on every pair of strings
\* of the locus length, and whenever the part of s left after trimming its
\* '-' is shorter than min_overlap it returns false.
C23_ShortOverlapFalse ==
    sim.pc = "done" =>
        /\ { sim.st, sim.ts, sim.ss } \subseteq { "True", "False" }
        /\ TrimmedLen(sim.s) < sim.min_overlap => sim.st = "False"

\* C23 as amended: is_similar returns true or false on every pair of strings
\* of the locus length without raising (the strings handed to the Hamming
\* distance have equal length), and it returns false when one of the strings
\* holds a '-' and the part of s left after trimming is shorter than
\* min_overlap; two strings without '-' are compared in full whatever
\* min_overlap is.
C23_Total ==
    sim.pc = "done" =>
        /\ { sim.st, sim.ts, sim.ss } \subseteq { "True", "False" }
        /\ (("-" \in Range(sim.s) \cup Range(sim.t)) /\ TrimmedLen(sim.s) < sim.min_overlap)
              => sim.st = "False"
        /\ ("-" \notin Range(sim.s) \cup Range(sim.t)) =>
              (sim.st = "True" <=> hamming_distance(sim.s, sim.t) <= sim.max_hamming)

\* an all-'-' string against a string with a trailing '-' whose trimmed part
\* is shorter than min_overlap: false one way and the other
C23_Witness ==
    /\ sim.pc = "done"
    /\ \A i \in DOMAIN sim.s : sim.s[i] = "-"
    /\ sim.t[1] # "-" /\ sim.t[Len(sim.t)] = "-"
    /\ TrimmedLen(sim.t) < sim.min_overlap
    /\ sim.st = "False" /\ sim.ts = "False"


(***************************************************************************)
(* SpecCells: cell construction from the sorted molecule list.  The        *)
(* clone_ids include one with a trailing '-' and one with a leading '0',   *)
(* so that each of the two strip tests discards a molecule on its own      *)
(***************************************************************************)
\* the cell ids of the molecules of SpecCells
CellsCellIds == << 1, 2 >>

\* the clone_ids of the molecules of SpecCells
CellsCloneIds == << << "A", "T" >>, << "A", "-" >>, << "0", "T" >> >>

\* the kinds of molecule << cell_id, clone_id, read_count >>, numbered cell by cell
CellsMoleculeKinds ==
    LET ncl == Len(CellsCloneIds)
        nr  == Len(ReadCounts)
    IN  [ k \in 1..(Len(CellsCellIds) * ncl * nr) |->
            << CellsCellIds[((k - 1) \div (ncl * nr)) + 1],
               CellsCloneIds[(((k - 1) \div nr) % ncl) + 1],
               ReadCounts[((k - 1) % nr) + 1] >> ]

\* the molecule lists of up to MaxMolecules molecules, sorted by cell id
CellsMoleculeLists ==
    LET nk == Len(CellsMoleculeKinds)
        sorted(ks) == \A i \in DOMAIN ks : i = 1 \/ ks[i - 1] <= ks[i]
        build(ks) == [ i \in DOMAIN ks |->
                         [cell_id    |-> CellsMoleculeKinds[ks[i]][1],
                          umi        |-> i,
                          clone_id   |-> CellsMoleculeKinds[ks[i]][2],
                          read_count |-> CellsMoleculeKinds[ks[i]][3]] ]
    IN  UNION { { build(ks) : ks \in { q \in [ 1..n -> 1..nk ] : sorted(q) } } :
                n \in 0..MaxMolecules }

\* the molecules kept by the minimum length test of the cell construction
barcode_list(mol_sorted, minlen_bc) ==
    SelectSeq(mol_sorted,
              LAMBDA m : /\ Len(strip(m.clone_id, "-")) > minlen_bc
                         /\ Len(strip(m.clone_id, "0")) > minlen_bc)

\* the start positions of the groups of consecutive molecules with one cell id
cell_group_pos(kept) ==
    { 1 } \cup { i + 1 : i \in { j \in 1..(Len(kept) - 1) :
                                   kept[j].cell_id # kept[j + 1].cell_id } }

\* Counter(bcgrp) of every group: the appearances of each barcode in the group
bc_counts(mol_sorted, minlen_bc) ==
    LET kept     == barcode_list(mol_sorted, minlen_bc)
        pos      == cell_group_pos(kept)
        ends(p)  == { q - 1 : q \in { r \in pos : r > p } } \cup { Len(kept) }
        end(p)   == CHOOSE e \in ends(p) : \A f \in ends(p) : e <= f
        group(p) == SubSeq(kept, p, end(p))
        tally(g) == [ k \in { g[i].clone_id : i \in DOMAIN g } |->
                        Cardinality({ i \in DOMAIN g : g[i].clone_id = k }) ]
        starts   == SelectSeq([ i \in 1..Len(kept) |-> i ], LAMBDA p : p \in pos)
    IN  IF kept = << >>
        THEN [error |-> "IndexError", groups |-> << >>]
        ELSE [error |-> "none",
              groups |-> [ i \in 1..Len(starts) |->
                             [cell_id |-> kept[starts[i]].cell_id,
                              counts  |-> tally(group(starts[i]))] ]]

InitCells ==
    /\ \E ms \in CellsMoleculeLists :
       \E ml \in { 1, 2 } :
          flt = [ pc                |-> "molecules",
                  molecules         |-> ms,
                  min_length        |-> ml,
                  should_run_visium |-> FALSE,
                  keep_single_reads |-> FALSE,
                  cells             |-> << >>,
                  filtered          |-> << >>,
                  refiltered        |-> << >>,
                  groups            |-> << >>,
                  error             |-> "none" ]
    /\ sim = Idle
    /\ cor = Idle
    /\ gr = Idle
    /\ rd = Idle
    /\ mol = Idle
    /\ run = Idle

\* the per-cell Counter of the cell construction, minlen_bc = min_length - 1
CountBarcodes ==
    /\ flt.pc = "cells"
    /\ LET r == bc_counts(flt.molecules, flt.min_length - 1)
       IN  flt' = [ flt EXCEPT !.pc = IF r.error = "none" THEN "counted" ELSE "failed",
                               !.groups = r.groups,
                               !.error = r.error ]
    /\ UNCHANGED << sim, cor, gr, rd, mol, run >>

NextCells == ComputeCells \/ CountBarcodes

SpecCells == InitCells /\ [][NextCells]_vars

\* the number of molecules of the cell with exactly this clone_id that pass
\* the minimum length after stripping '-' and after stripping '0'
MoleculesCarrying(molecules, cell_id, k, min_length) ==
    Cardinality({ i \in DOMAIN molecules :
                    /\ molecules[i].cell_id = cell_id
                    /\ molecules[i].clone_id = k
                    /\ Len(strip(k, "-")) >= min_length
                    /\ Len(strip(k, "0")) >= min_length })

\* the count tables hold, per cell and clone_id, the number of molecules
CountsAreMolecules(cells, molecules, min_length) ==
    /\ \A i, j \in DOMAIN cells : cells[i].cell_id = cells[j].cell_id => i = j
    /\ \A i \in DOMAIN cells : \A k \in DOMAIN cells[i].counts :
          /\ cells[i].counts[k] > 0
          /\ cells[i].counts[k] = MoleculesCarrying(molecules, cells[i].cell_id, k, min_length)
    /\ \A m \in DOMAIN molecules :
          MoleculesCarrying(molecules, molecules[m].cell_id, molecules[m].clone_id,
                            min_length) > 0
            => \E i \in DOMAIN cells : /\ cells[i].cell_id = molecules[m].cell_id
                                       /\ molecules[m].clone_id \in DOMAIN cells[i].counts

C25_SharedCloneIdEdges ==
    gr.pc \notin { "idle", "cells" } =>
        /\ gr.nodes = DOMAIN gr.cells
        /\ \A e \in gr.built : e \subseteq gr.nodes /\ Cardinality(e) = 2
        /\ gr.jaccard_threshold = << 0, 1 >> =>
              \A u, v \in gr.nodes :
                 u # v => ({ u, v } \in gr.built
                             <=> (DOMAIN gr.cells[u].counts) \cap (DOMAIN gr.cells[v].counts) # {})

\* the graph is built with the default threshold: two cells whose inventories
\* differ but share a clone_id are joined, two with disjoint inventories are not
C25_Witness ==
    /\ gr.pc = "graph"
    /\ gr.jaccard_threshold = << 0, 1 >>
    /\ \E u, v, w \in gr.nodes :
          /\ DOMAIN gr.cells[u].counts # DOMAIN gr.cells[v].counts
          /\ (DOMAIN gr.cells[u].counts) \cap (DOMAIN gr.cells[v].counts) # {}
          /\ { u, v } \in gr.edges
          /\ (DOMAIN gr.cells[u].counts) \cap (DOMAIN gr.cells[w].counts) = {}
          /\ { u, w } \notin gr.edges

\* C26: after the computed bridge set has been removed once, the pruned graph
\* holds no bridge: the bridges of the pruned graph are the empty set, every
\* remaining edge lies on a cycle, and removing the bridges of the pruned graph
\* leaves its edges and its components as they are.
C26_PrunedHasNoBridge ==
    gr.pc = "pruned" =>
        /\ gr.edges = gr.built \ gr.bridges
        /\ bridges_of(gr.nodes, gr.edges) = {}
        /\ \A e \in gr.edges : OnCycle(e, gr.edges)
        /\ Components(gr.nodes, gr.edges \ bridges_of(gr.nodes, gr.edges))
             = Components(gr.nodes, gr.edges)

\* bridges were removed from a graph and edges are left
C26_Witness ==
    /\ gr.pc = "pruned"
    /\ gr.bridges # {}
    /\ gr.edges # {}
    /\ gr.edges # gr.built

\* C27: correct_clone_ids changes nothing but clone_id: it returns as many
\* molecules in the same order with cell_id, umi and read_count unchanged; two
\* molecules with the same original clone_id, in whatever cells, get the same
\* corrected clone_id; the clone_ids of singleton clusters are untouched; and
\* every corrected clone_id already occurred among the input molecules.
C27_OnlyCloneIdChanges ==
    cor.pc = "corrected" =>
        LET old == cor.molecules
            new == cor.corrected
        IN  /\ Len(new) = Len(old)
            /\ \A i \in DOMAIN old :
                  /\ new[i].cell_id = old[i].cell_id
                  /\ new[i].umi = old[i].umi
                  /\ new[i].read_count = old[i].read_count
                  /\ { old[i].clone_id } \in cor.clusters => new[i].clone_id = old[i].clone_id
                  /\ \E j \in DOMAIN old : new[i].clone_id = old[j].clone_id
            /\ \A i, j \in DOMAIN old :
                  old[i].clone_id = old[j].clone_id => new[i].clone_id = new[j].clone_id

\* a clone_id was rewritten next to a clone_id held by molecules of two cells
C27_Witness ==
    /\ cor.pc = "corrected"
    /\ \E i, j, k \in DOMAIN cor.molecules :
          /\ cor.corrected[i].clone_id # cor.molecules[i].clone_id
          /\ j # k
          /\ cor.molecules[j].clone_id = cor.molecules[k].clone_id
          /\ cor.molecules[j].cell_id # cor.molecules[k].cell_id
          /\ cor.molecules[j].read_count # cor.molecules[k].read_count

\* the filter of the mode of the run applied to the list cells
filter_of_mode(cells) ==
    IF flt.should_run_visium THEN filter_visium(cells, flt.molecules)
    ELSE [error |-> "none",
          cells |-> filter_cells(cells, flt.molecules, flt.keep_single_reads)]

\* C28: filter_cells and filter_visium only delete entries.  The input cells
\* are still the tables built from the molecules, every entry of the output
\* is an entry of the input cell with the same count, and the output cells
\* come in the order of the input.  Every decision is taken against the
\* totals of the unfiltered tables, so the outcome for a cell does not depend
\* on what was removed from the cells before it: the filter applied to the
\* cells in reverse order gives the same cells in reverse order.
C28_FiltersOnlyDelete ==
    flt.pc \in { "filtered", "refiltered" } =>
        LET in  == flt.cells
            out == flt.filtered
        IN  /\ in = compute_cells(flt.molecules, flt.min_length)
            /\ \A j \in DOMAIN out : \E i \in DOMAIN in :
                  /\ in[i].cell_id = out[j].cell_id
                  /\ DOMAIN out[j].counts \subseteq DOMAIN in[i].counts
                  /\ \A k \in DOMAIN out[j].counts : out[j].counts[k] = in[i].counts[k]
            /\ \A j1, j2 \in DOMAIN out :
                  j1 < j2 => \E i1, i2 \in DOMAIN in :
                                /\ i1 < i2
                                /\ in[i1].cell_id = out[j1].cell_id
                                /\ in[i2].cell_id = out[j2].cell_id
            /\ filter_of_mode(Reverse(in)) = [error |-> "none", cells |-> Reverse(out)]

\* two cells held one clone_id once each, with two reads per molecule, and
\* both lost it: a cell is gone, the second of the two keeps another entry
C28_Witness ==
    /\ flt.pc = "filtered"
    /\ ~flt.should_run_visium
    /\ flt.keep_single_reads
    /\ Len(flt.filtered) < Len(flt.cells)
    /\ \E i, j \in DOMAIN flt.cells : \E k \in DOMAIN flt.cells[i].counts :
          /\ i < j
          /\ k \in DOMAIN flt.cells[j].counts
          /\ flt.cells[i].counts[k] = 1
          /\ flt.cells[j].counts[k] = 1
          /\ \A m \in DOMAIN flt.molecules :
                flt.molecules[m].clone_id = k => flt.molecules[m].read_count = 2
          /\ ~Survives(flt.filtered, flt.cells[i].cell_id, k)
          /\ ~Survives(flt.filtered, flt.cells[j].cell_id, k)
          /\ \E x \in DOMAIN flt.filtered : flt.filtered[x].cell_id = flt.cells[j].cell_id

\* C29: after filter_cells on the cells built from the molecule list, a
\* clone_id held by two different filtered cells has a count of 2 or more in
\* each of them, so two filtered cells share only clone_ids that two or more
\* molecules carry in both cells.
C29_SharedCountsAtLeastTwo ==
    (flt.pc \in { "filtered", "refiltered" } /\ ~flt.should_run_visium) =>
        \A i, j \in DOMAIN flt.filtered :
           i # j => \A k \in (DOMAIN flt.filtered[i].counts) \cap (DOMAIN flt.filtered[j].counts) :
                       /\ flt.filtered[i].counts[k] >= 2
                       /\ flt.filtered[j].counts[k] >= 2
                       /\ MoleculesCarrying(flt.molecules, flt.filtered[i].cell_id, k,
                                            flt.min_length) >= 2
                       /\ MoleculesCarrying(flt.molecules, flt.filtered[j].cell_id, k,
                                            flt.min_length) >= 2

\* two filtered cells share a clone_id that two molecules carry in each of
\* them, one of the molecules with a single read
C29_Witness ==
    /\ flt.pc = "filtered"
    /\ ~flt.should_run_visium
    /\ ~flt.keep_single_reads
    /\ \E i, j \in DOMAIN flt.filtered :
          /\ i # j
          /\ \E k \in (DOMAIN flt.filtered[i].counts) \cap (DOMAIN flt.filtered[j].counts) :
                /\ flt.filtered[i].counts[k] = 2
                /\ \E m \in DOMAIN flt.molecules :
                      flt.molecules[m].clone_id = k /\ flt.molecules[m].read_count = 1

\* the groups of a list laid end to end
RECURSIVE Concat(_)
Concat(groups) ==
    IF groups = << >> THEN << >> ELSE groups[1] \o Concat(Tail(groups))

\* the (cell_id, umi) pairs of a list of reads or molecules
PairsOf(q) == { << q[i].cell_id, q[i].umi >> : i \in DOMAIN q }

\* C30: molecule aggregation conserves reads.  For a non-empty read list the
\* groups, laid end to end, are the sorted reads, which are the reads of the
\* file in another order; every group is non-empty and holds the reads of one
\* (cell_id, umi) pair, and no two groups hold the same pair.  There is
\* exactly one molecule per distinct (cell_id, umi) pair, its read_count is the
\* number of reads of the pair, and the read_counts add up to the number of
\* reads.
C30_ReadsConserved ==
    mol.read_col # << >> =>
        /\ (mol.pc = "groups" /\ mol.mol_col = << >>) =>
              /\ Concat(mol.groups) = mol.read_sorted
              /\ \E q \in IndexOrders(Len(mol.read_col)) :
                    mol.read_sorted = [ i \in DOMAIN mol.read_col |-> mol.read_col[q[i]] ]
              /\ \A i \in DOMAIN mol.groups :
                    mol.groups[i] # << >> /\ Cardinality(PairsOf(mol.groups[i])) = 1
              /\ \A i, j \in DOMAIN mol.groups :
                    i # j => PairsOf(mol.groups[i]) # PairsOf(mol.groups[j])
        /\ mol.pc = "molecules" =>
              /\ PairsOf(mol.mol_col) = PairsOf(mol.read_col)
              /\ Len(mol.mol_col) = Cardinality(PairsOf(mol.read_col))
              /\ \A i \in DOMAIN mol.mol_col :
                    mol.mol_col[i].read_count = Len(ReadsOf(mol.mol_col[i]))
              /\ SumOf([ i \in DOMAIN mol.mol_col |-> mol.mol_col[i].read_count ])
                   = Len(mol.read_col)
        /\ mol.pc # "failed"

\* two reads of one (cell_id, umi) pair with a read of another cell and the
\* same UMI between them in the file have become two molecules
C30_Witness ==
    /\ mol.pc = "molecules"
    /\ Len(mol.read_col) = 3
    /\ mol.read_col[1].cell_id = mol.read_col[3].cell_id
    /\ mol.read_col[1].umi = mol.read_col[3].umi
    /\ mol.read_col[2].cell_id # mol.read_col[1].cell_id
    /\ mol.read_col[2].umi = mol.read_col[1].umi
    /\ Len(mol.mol_col) = 2
    /\ \E i \in DOMAIN mol.mol_col : mol.mol_col[i].read_count = 2

=============================================================================
